---- MODULE Spec2Model ----
(***************************************************************************)
(* Model of the Instagram-to-Telegram relay: the delivery coordinator      *)
(* (TelegramHandler), the downloader and its scratch directory             *)
(* (DownloaderService), the link classifier (InstagramHandler), the        *)
(* resolver (InstagramService), the message handler (BotService) and the   *)
(* startup (index.ts).                                                     *)
(*                                                                         *)
(* Specifications:                                                         *)
(*   Spec          one sendMediaItems call, interleaved with the downloads *)
(*                 it started                                              *)
(*   SpecTimers    a short request, the two scratch-directory timers and   *)
(*                 the clock                                               *)
(*   SpecSplit     splitIntoGroups applied to bounded item lists           *)
(*   SpecDownload  downloadFile applied to bounded transport responses     *)
(*   SpecShortcode the link classifier applied to bounded texts            *)
(*   SpecResolve   extractMediaItems applied to bounded payloads           *)
(*   SpecBot       one text message through the message handler            *)
(*   SpecScratch   cleanupFile and cleanupTempFiles on bounded directories *)
(*   SpecExtension getFileExtension applied to bounded URLs                *)
(*   SpecAdmin     start() and the configuration commands                  *)
(*   SpecToggle    a short request with mediagroups_on/off at any moment   *)
(*   SpecStartup   startBot, then one text message at the running bot      *)
(***************************************************************************)
EXTENDS Integers, Sequences, FiniteSets, TLC

(***************************************************************************)
(* Bounds of the model.                                                    *)
(***************************************************************************)
\* Longest item list handed to sendMediaItems: one full album and one more.
MaxItems == 11
\* Longest of the short item lists handed to sendMediaItems.
MaxShort == 3
\* Most transport failures (of a download, a file, URL or album send) the
\* environment injects into one request.
MaxFaults == 2
\* A download of a group may settle while at most this many downloads of the
\* same group with a smaller index are still in flight.
MaxOvertake == 1
\* Longest item list handed to splitIntoGroups in SpecSplit.
MaxSplitItems == 41
\* Longest item list of a request in SpecTimers.
MaxTimerItems == 2
\* Most children of a carousel payload.
MaxChildren == 3
\* Longest item list the resolver returns to the message handler.
MaxBotItems == 2
\* Most entries of the scratch directory of SpecScratch.
MaxEntries == 3

(***************************************************************************)
(* Program constants.                                                      *)
(***************************************************************************)
\* const MAX_MEDIA_GROUP_SIZE = 10
MAX_MEDIA_GROUP_SIZE == 10
\* config.maxFileSize, in MB
maxFileSize == 50
\* config.debugFileTTL = 30 minutes, in clock ticks of 15 minutes
debugFileTTL == 2

VIDEO == "VIDEO"
IMAGE == "IMAGE"
MediaType == {IMAGE, VIDEO}

\* undefined originalMessageId
NoId == 0
\* ctx.from is undefined: no sender id
NoSender == 0
\* a URL field that is missing or empty
NoUrl == 0
\* absent content-length header
NoHeader == <<"undefined">>

(***************************************************************************)
(* Helpers.                                                                *)
(***************************************************************************)
Min(a, b) == IF a < b THEN a ELSE b

\* Array.prototype.slice(a, b) on a 1-based sequence, a and b 0-based.
slice(s, a, b) == [k \in 1..(Min(b, Len(s)) - Min(a, Len(s))) |-> s[a + k]]

RECURSIVE Concat(_)
Concat(ss) == IF ss = <<>> THEN <<>> ELSE Head(ss) \o Concat(Tail(ss))

Range(s) == {s[k] : k \in DOMAIN s}

\* A list of K media items whose kinds alternate, starting with `first`.
ItemList(K, first) ==
    [j \in 1..K |-> [id |-> j,
                     type |-> IF j % 2 = 1 THEN first
                              ELSE IF first = VIDEO THEN IMAGE ELSE VIDEO]]

\* The item list of a request of K items: item j is a video for odd j.
MediaItems(K) == ItemList(K, VIDEO)

(***************************************************************************)
(* TelegramHandler.splitIntoGroups                                         *)
(***************************************************************************)
\* The loop with `i <= items.length` for its condition.
RECURSIVE splitLoop_inclusive(_, _, _)
splitLoop_inclusive(its, i, groups) ==
    IF i <= Len(its)
    THEN splitLoop_inclusive(its, i + MAX_MEDIA_GROUP_SIZE,
                             Append(groups, slice(its, i, i + MAX_MEDIA_GROUP_SIZE)))
    ELSE groups

RECURSIVE splitLoop(_, _, _)
splitLoop(its, i, groups) ==
    IF i < Len(its)
    THEN splitLoop(its, i + MAX_MEDIA_GROUP_SIZE,
                   Append(groups, slice(its, i, i + MAX_MEDIA_GROUP_SIZE)))
    ELSE groups

splitIntoGroups(its) == splitLoop(its, 0, <<>>)

(***************************************************************************)
(* DownloaderService: parseInt, the size ceiling, downloadFile             *)
(***************************************************************************)
Digits == <<"0", "1", "2", "3", "4", "5", "6", "7", "8", "9">>
IsDigit(c) == \E d \in 1..10 : Digits[d] = c
DigitVal(c) == (CHOOSE d \in 1..10 : Digits[d] = c) - 1

RECURSIVE skipSpace(_)
skipSpace(s) == IF s # <<>> /\ Head(s) = " " THEN skipSpace(Tail(s)) ELSE s

RECURSIVE digitsValue(_, _)
digitsValue(s, acc) ==
    IF s # <<>> /\ IsDigit(Head(s))
    THEN digitsValue(Tail(s), acc * 10 + DigitVal(Head(s)))
    ELSE acc

\* parseInt(s, 10): leading blanks, an optional sign, then the longest digit
\* prefix; NaN when there is no digit there.
parseInt(s) ==
    LET t == skipSpace(s)
        neg == t # <<>> /\ Head(t) = "-"
        u == IF t # <<>> /\ Head(t) \in {"-", "+"} THEN Tail(t) ELSE t
    IN IF u = <<>> \/ ~IsDigit(Head(u)) THEN [nan |-> TRUE, val |-> 0]
       ELSE [nan |-> FALSE, val |-> IF neg THEN 0 - digitsValue(u, 0) ELSE digitsValue(u, 0)]

\* headers['content-length'] || '0'
headerOrZero(h) == IF h = NoHeader \/ h = <<>> THEN <<"0">> ELSE h

contentLengthOf(h) == parseInt(headerOrZero(h))

maxFileSizeBytes == maxFileSize * 1024 * 1024

\* The size check with `>=` for its comparison.
tooLarge_atCeiling(contentLength) ==
    ~contentLength.nan /\ contentLength.val >= maxFileSizeBytes

\* contentLength > maxFileSizeBytes (false for NaN)
tooLarge(contentLength) == ~contentLength.nan /\ contentLength.val > maxFileSizeBytes

\* One downloadFile call against the transport responses r: the probe
\* (an error, or a response with its content-length header), the GET (an
\* error, a response whose body arrives, or one whose body stream breaks
\* after the transfer started) and the write stream.  settled: the promise
\* resolves or rejects; ok: it resolves with the path; file: a file of that
\* path is in the scratch directory afterwards.  Only the writer's 'finish'
\* and 'error' events settle the promise: a broken body stream ends the pipe
\* without either.
downloadFile(r) ==
    IF r.probe = "error"
    THEN [ok |-> FALSE, settled |-> TRUE, getIssued |-> FALSE, file |-> FALSE,
          tooLarge |-> FALSE]
    ELSE IF tooLarge(contentLengthOf(r.header))
    THEN [ok |-> FALSE, settled |-> TRUE, getIssued |-> FALSE, file |-> FALSE,
          tooLarge |-> TRUE]
    ELSE IF r.get = "error"
    THEN [ok |-> FALSE, settled |-> TRUE, getIssued |-> TRUE, file |-> FALSE,
          tooLarge |-> FALSE]
    ELSE IF r.write = "error"
    THEN [ok |-> FALSE, settled |-> TRUE, getIssued |-> TRUE, file |-> TRUE,
          tooLarge |-> FALSE]
    ELSE IF r.get = "interrupted"
    THEN [ok |-> FALSE, settled |-> FALSE, getIssued |-> TRUE, file |-> TRUE,
          tooLarge |-> FALSE]
    ELSE [ok |-> TRUE, settled |-> TRUE, getIssued |-> TRUE, file |-> TRUE,
          tooLarge |-> FALSE]

Response(p, h, g, w) == [probe |-> p, header |-> h, get |-> g, write |-> w]

\* "52428800" is the ceiling itself, "52428801" the first length above it.
AtCeiling == <<"5", "2", "4", "2", "8", "8", "0", "0">>
OverCeiling == <<"5", "2", "4", "2", "8", "8", "0", "1">>

\* Content-length headers a probe may answer with: none, "", "0", the
\* ceiling, one above it, and texts that are no decimal number.
Headers ==
    { NoHeader, <<>>, <<"0">>, AtCeiling, OverCeiling,
      <<"a", "b", "c">>, OverCeiling \o <<"x">>, <<" ">> \o OverCeiling,
      <<"-">> \o OverCeiling, <<"+">> \o AtCeiling }

\* Every transport behaviour one downloadFile call may meet.
DownloadResponses ==
    { Response(p, h, g, w) : p \in {"ok", "error"}, h \in Headers,
                             g \in {"ok", "error", "interrupted"},
                             w \in {"finish", "error"} }

NoOutcome ==
    [ok |-> FALSE, settled |-> FALSE, getIssued |-> FALSE, file |-> FALSE,
     tooLarge |-> FALSE]

\* The transport behaviours a download of a request may meet.
DeliveryResponses ==
    { Response("ok", NoHeader, "ok", "finish"),
      Response("ok", OverCeiling, "ok", "finish"),
      Response("ok", NoHeader, "error", "finish") }

(***************************************************************************)
(* InstagramHandler: INSTAGRAM_URL_REGEX, isInstagramUrl, extractShortcode *)
(* Texts are sequences of one-character strings.                           *)
(***************************************************************************)
UpperCase == <<"A", "B", "C", "D", "E", "F", "G", "H", "I", "J", "K", "L", "M",
               "N", "O", "P", "Q", "R", "S", "T", "U", "V", "W", "X", "Y", "Z">>
LowerCase == <<"a", "b", "c", "d", "e", "f", "g", "h", "i", "j", "k", "l", "m",
               "n", "o", "p", "q", "r", "s", "t", "u", "v", "w", "x", "y", "z">>

\* The flag i: letters are compared without their case.
toLower(c) ==
    IF \E k \in DOMAIN UpperCase : UpperCase[k] = c
    THEN LowerCase[CHOOSE k \in DOMAIN UpperCase : UpperCase[k] = c]
    ELSE c

\* instagram\.com\/
HostPattern == <<"i", "n", "s", "t", "a", "g", "r", "a", "m", ".", "c", "o", "m", "/">>
\* (?:p|reel), the alternatives of the regex of InstagramService.
TypeAlternatives_noTv == << <<"p">>, <<"r", "e", "e", "l">> >>

\* (p|reel|tv), the alternatives in the order the regex tries them
TypeAlternatives == << <<"p">>, <<"r", "e", "e", "l">>, <<"t", "v">> >>

\* The literal lit matches the text at offset i (0-based).
matchLiteral(text, i, lit) ==
    /\ i + Len(lit) <= Len(text)
    /\ \A k \in 1..Len(lit) : toLower(text[i + k]) = lit[k]

\* [^/?]+ is greedy: the number of characters from offset j on that are
\* neither '/' nor '?'.
RECURSIVE segmentLength(_, _)
segmentLength(text, j) ==
    IF j < Len(text) /\ text[j + 1] \notin {"/", "?"}
    THEN 1 + segmentLength(text, j + 1)
    ELSE 0

\* An attempt of the regex with [^/?]* in place of [^/?]+.
matchWith_emptySegment(text, i, a) ==
    LET t == TypeAlternatives[a]
        j == i + Len(HostPattern) + Len(t)
    IN /\ matchLiteral(text, i, HostPattern)
       /\ matchLiteral(text, i + Len(HostPattern), t)
       /\ matchLiteral(text, j, <<"/">>)
       /\ segmentLength(text, j + 1) >= 0

\* An attempt of the regex at offset i with alternative a of the group 1:
\* the host, the alternative, '/', and at least one character of group 2.
matchWith(text, i, a) ==
    LET t == TypeAlternatives[a]
        j == i + Len(HostPattern) + Len(t)
    IN /\ matchLiteral(text, i, HostPattern)
       /\ matchLiteral(text, i + Len(HostPattern), t)
       /\ matchLiteral(text, j, <<"/">>)
       /\ segmentLength(text, j + 1) >= 1

\* String.prototype.match found nothing.
noMatch == [matched |-> FALSE, g1 |-> <<>>, g2 |-> <<>>]
\* extractShortcode returned null.
noShortcode == [isNull |-> TRUE, value |-> <<>>]

\* String.prototype.match / RegExp.prototype.test with INSTAGRAM_URL_REGEX:
\* the leftmost offset at which an attempt succeeds, with its first
\* succeeding alternative; the groups 1 and 2 of the match.
regexMatch(text) ==
    LET hits == {i \in 0..Len(text) : \E a \in DOMAIN TypeAlternatives : matchWith(text, i, a)}
    IN IF hits = {} THEN noMatch
       ELSE LET i == CHOOSE h \in hits : \A g \in hits : h <= g
                a == CHOOSE b \in DOMAIN TypeAlternatives :
                        /\ matchWith(text, i, b)
                        /\ \A c \in DOMAIN TypeAlternatives : matchWith(text, i, c) => b <= c
                j == i + Len(HostPattern) + Len(TypeAlternatives[a]) + 1
            IN [matched |-> TRUE,
                g1 |-> SubSeq(text, i + Len(HostPattern) + 1, j - 1),
                g2 |-> SubSeq(text, j + 1, j + segmentLength(text, j))]

\* InstagramHandler.isInstagramUrl
isInstagramUrl(url) == regexMatch(url).matched

\* InstagramHandler.extractShortcode: match[2], or null
extractShortcode(url) ==
    LET match == regexMatch(url)
    IN IF match.matched /\ match.g2 # <<>> THEN [isNull |-> FALSE, value |-> match.g2]
       ELSE noShortcode

\* InstagramService.extractShortcode has a regex of its own,
\* /instagram\.com\/(?:p|reel)\/([^/?]+)/, without the flag i: its
\* alternatives, and a literal compared character by character.
ServiceAlternatives == << <<"p">>, <<"r", "e", "e", "l">> >>

matchLiteralExact(text, i, lit) ==
    /\ i + Len(lit) <= Len(text)
    /\ \A k \in 1..Len(lit) : text[i + k] = lit[k]

\* An attempt of the regex of InstagramService at offset i with alternative a.
serviceMatchWith(text, i, a) ==
    LET t == ServiceAlternatives[a]
        j == i + Len(HostPattern) + Len(t)
    IN /\ matchLiteralExact(text, i, HostPattern)
       /\ matchLiteralExact(text, i + Len(HostPattern), t)
       /\ matchLiteralExact(text, j, <<"/">>)
       /\ segmentLength(text, j + 1) >= 1

\* InstagramService.extractShortcode: match[1] of the leftmost match, or null
InstagramService_extractShortcode(url) ==
    LET hits == {i \in 0..Len(url) :
                    \E a \in DOMAIN ServiceAlternatives : serviceMatchWith(url, i, a)}
    IN IF hits = {} THEN noShortcode
       ELSE LET i == CHOOSE h \in hits : \A g \in hits : h <= g
                a == CHOOSE b \in DOMAIN ServiceAlternatives :
                        /\ serviceMatchWith(url, i, b)
                        /\ \A c \in DOMAIN ServiceAlternatives :
                              serviceMatchWith(url, i, c) => b <= c
                j == i + Len(HostPattern) + Len(ServiceAlternatives[a]) + 1
            IN [isNull |-> FALSE,
                value |-> SubSeq(url, j + 1, j + segmentLength(url, j))]

\* The texts of SpecShortcode: a prefix, a host, a path segment for the type,
\* a segment after it and a suffix, joined as in a link.
Prefixes == { <<>>, <<"h", "t", "t", "p", "s", ":", "/", "/", "w", "w", "w", ".">>,
              <<"s", "e", "e", " ">> }
Hosts == { <<"i", "n", "s", "t", "a", "g", "r", "a", "m", ".", "c", "o", "m">>,
           <<"I", "n", "s", "t", "a", "G", "R", "A", "M", ".", "C", "o", "m">>,
           <<"i", "n", "s", "t", "a", "g", "r", "a", "m", "x", "c", "o", "m">>,
           <<"i", "n", "s", "t", "a", "g", "r", "a", "m", ".", "c", "o">> }
TypeSegments == { <<"p">>, <<"r", "e", "e", "l">>, <<"t", "v">>, <<"T", "V">>,
                  <<"r", "e", "e", "l", "s">>, <<"s", "t", "o", "r", "i", "e", "s">>,
                  <<>> }
Segments == { <<>>, <<"A">>, <<"C", "x", "-", "_", "9">>, <<"a", " ", "b">> }
Suffixes == { <<>>, <<"/">>, <<"?", "i", "g", "=", "1">>, <<"/", "c", "?", "d">> }
\* The hosts and type segments among them that the regex accepts.
SupportedHosts ==
    { <<"i", "n", "s", "t", "a", "g", "r", "a", "m", ".", "c", "o", "m">>,
      <<"I", "n", "s", "t", "a", "G", "R", "A", "M", ".", "C", "o", "m">> }
SupportedTypes == { <<"p">>, <<"r", "e", "e", "l">>, <<"t", "v">>, <<"T", "V">> }
LinkText(pre, host, type, seg, suf) == pre \o host \o <<"/">> \o type \o <<"/">> \o seg \o suf
Texts ==
    { LinkText(pre, host, type, seg, suf) :
        pre \in Prefixes, host \in Hosts, type \in TypeSegments, seg \in Segments,
        suf \in Suffixes }
    \cup { <<>>, <<"h", "e", "l", "l", "o">> }

(***************************************************************************)
(* The resolver (InstagramService): from the upstream payload of a post to *)
(* its item list.  A URL is a number, NoUrl a missing or empty one.  Of a  *)
(* payload the model keeps the fields the extraction reads: __typename,    *)
(* edge_sidecar_to_children.edges ("absent", an "array" of nodes, or some  *)
(* other "object"), is_video, video_url, the URLs of video_versions,       *)
(* display_url and the URLs of image_versions2.candidates.  An entry of    *)
(* edges is the node of the edge, or NoNode for an edge without one.       *)
(***************************************************************************)
Node(v, vu, du) == [is_video |-> v, video_url |-> vu, display_url |-> du]

\* edge.node is undefined
NoNode == [missing |-> TRUE]

\* How a call ended: it returned a list, or threw.
Returned(list) == [threw |-> FALSE, items |-> list]
Thrown == [threw |-> TRUE, items |-> <<>>]

MediaItem(type, url) == [type |-> type, url |-> url]

\* The loop of extractCarouselMedia with any node flagged is_video pushed
\* as a video.
RECURSIVE carouselLoop_anyVideo(_, _, _)
carouselLoop_anyVideo(edges, k, acc) ==
    IF k > Len(edges) THEN Returned(acc)
    ELSE IF edges[k] = NoNode THEN Thrown
    ELSE LET node == edges[k]
         IN carouselLoop_anyVideo(edges, k + 1,
                IF node.is_video
                THEN Append(acc, MediaItem(VIDEO, node.video_url))
                ELSE IF node.display_url # NoUrl
                     THEN Append(acc, MediaItem(IMAGE, node.display_url))
                     ELSE acc)

\* for (const edge of edges) { ... } from edge k on, with the items pushed
\* so far: node.is_video of an edge without a node throws a TypeError.
RECURSIVE carouselLoop(_, _, _)
carouselLoop(edges, k, acc) ==
    IF k > Len(edges) THEN Returned(acc)
    ELSE IF edges[k] = NoNode THEN Thrown
    ELSE LET node == edges[k]
         IN carouselLoop(edges, k + 1,
                IF node.is_video /\ node.video_url # NoUrl
                THEN Append(acc, MediaItem(VIDEO, node.video_url))
                ELSE IF node.display_url # NoUrl
                     THEN Append(acc, MediaItem(IMAGE, node.display_url))
                     ELSE acc)

extractCarouselMedia(mediaData) ==
    IF mediaData.edges.kind # "array" \/ Len(mediaData.edges.list) = 0
    THEN Returned(<<>>)
    ELSE carouselLoop(mediaData.edges.list, 1, <<>>)

\* extractVideoMedia that falls back to the image fields of the payload.
extractVideoMedia_imageFallback(mediaData) ==
    IF mediaData.video_url # NoUrl
    THEN <<MediaItem(VIDEO, mediaData.video_url)>>
    ELSE IF Len(mediaData.video_versions) > 0
         THEN <<MediaItem(VIDEO, mediaData.video_versions[1])>>
         ELSE IF mediaData.display_url # NoUrl
              THEN <<MediaItem(IMAGE, mediaData.display_url)>>
              ELSE <<>>

extractVideoMedia(mediaData) ==
    IF mediaData.video_url # NoUrl
    THEN <<MediaItem(VIDEO, mediaData.video_url)>>
    ELSE IF Len(mediaData.video_versions) > 0
         THEN <<MediaItem(VIDEO, mediaData.video_versions[1])>>
         ELSE <<>>

extractImageMedia(mediaData) ==
    IF mediaData.display_url # NoUrl
    THEN <<MediaItem(IMAGE, mediaData.display_url)>>
    ELSE IF Len(mediaData.candidates) > 0
         THEN <<MediaItem(IMAGE, mediaData.candidates[1])>>
         ELSE <<>>

\* The try block of extractMediaItems.  An edges value of any kind but
\* "absent" is truthy, the empty array too.
classify(mediaData) ==
    IF mediaData.edges.kind # "absent"
    THEN extractCarouselMedia(mediaData)
    ELSE IF mediaData.typename = "GraphVideo" \/ mediaData.is_video
         THEN Returned(extractVideoMedia(mediaData))
         ELSE Returned(extractImageMedia(mediaData))

\* extractMediaItems with the video test ahead of the carousel test.
extractMediaItems_videoFirst(mediaData) ==
    LET r == IF mediaData.typename = "GraphVideo" \/ mediaData.is_video
             THEN Returned(extractVideoMedia(mediaData))
             ELSE IF mediaData.edges.kind # "absent"
                  THEN extractCarouselMedia(mediaData)
                  ELSE Returned(extractImageMedia(mediaData))
    IN IF r.threw THEN Returned(<<>>) ELSE r

\* extractMediaItems without its catch block.
extractMediaItems_noCatch(mediaData) == classify(mediaData)

\* extractMediaItems: what the try block returns, and [] from the catch
\* block for anything thrown in it.
extractMediaItems(mediaData) ==
    LET r == classify(mediaData)
    IN IF r.threw THEN Returned(<<>>) ELSE r

\* The payloads fed to the extraction.  The URLs of the post itself are
\* 1..6, those of child k are 10 + k (video) and 20 + k (display); the
\* first entry of video_versions or of the candidates may be without url.
ChildNodes(k) ==
    { Node(v, vu, du) : v \in BOOLEAN, vu \in {NoUrl, 10 + k}, du \in {NoUrl, 20 + k} }
    \cup { NoNode }

RECURSIVE EdgeLists(_)
EdgeLists(n) ==
    IF n = 0 THEN { <<>> }
    ELSE { Append(e, c) : e \in EdgeLists(n - 1), c \in ChildNodes(n) }

NoEdges == [kind |-> "absent", list |-> <<>>]

EdgesValues ==
    { NoEdges, [kind |-> "object", list |-> <<>>] }
    \cup { [kind |-> "array", list |-> e] : e \in UNION { EdgeLists(n) : n \in 0..MaxChildren } }

Payloads ==
    [ typename : {"GraphSidecar", "GraphVideo", "GraphImage"},
      edges : EdgesValues,
      is_video : BOOLEAN,
      video_url : {NoUrl, 1},
      video_versions : { <<>>, <<2, 5>>, <<NoUrl, 5>> },
      display_url : {NoUrl, 3},
      candidates : { <<>>, <<4, 6>>, <<NoUrl, 6>> } ]

NoPayload ==
    [ typename |-> "GraphImage", edges |-> NoEdges, is_video |-> FALSE,
      video_url |-> NoUrl, video_versions |-> <<>>, display_url |-> NoUrl,
      candidates |-> <<>> ]

(***************************************************************************)
(* DownloaderService.getFileExtension.  A URL and an extension are         *)
(* sequences of characters; a content type is a string, "undefined" when   *)
(* the probe's response has no content-type header.                        *)
(***************************************************************************)
\* The index of the last character c of text at or before position k, 0 if
\* there is none.
RECURSIVE lastIndexOf(_, _, _)
lastIndexOf(text, c, k) ==
    IF k = 0 THEN 0
    ELSE IF text[k] = c THEN k ELSE lastIndexOf(text, c, k - 1)

\* path.extname: of the part after the last '/', what starts at its last
\* '.', unless that '.' is its first character.
extname(p) ==
    LET slash == lastIndexOf(p, "/", Len(p))
        dot == lastIndexOf(p, ".", Len(p))
    IN IF dot <= slash + 1 THEN <<>> ELSE SubSeq(p, dot, Len(p))

toLowerCase(text) == [k \in DOMAIN text |-> toLower(text[k])]

\* ['.jpg', '.jpeg', '.png', '.mp4', '.mov']
KnownExtensions ==
    { <<".", "j", "p", "g">>, <<".", "j", "p", "e", "g">>, <<".", "p", "n", "g">>, <<".", "m", "p", "4">>, <<".", "m", "o", "v">> }

getFileExtension(url, contentType) ==
    LET urlExtension == toLowerCase(extname(url))
    IN IF urlExtension # <<>> /\ urlExtension \in KnownExtensions THEN urlExtension
       ELSE IF contentType \notin {"undefined", ""}
            THEN CASE contentType = "image/jpeg" -> <<".", "j", "p", "g">>
                   [] contentType = "image/png" -> <<".", "p", "n", "g">>
                   [] contentType = "video/mp4" -> <<".", "m", "p", "4">>
                   [] contentType = "video/quicktime" -> <<".", "m", "o", "v">>
                   [] OTHER -> <<>>
            ELSE <<".", "j", "p", "g">>

\* The URLs given to getFileExtension: a file name with or without a known
\* suffix, with or without a query string.
UrlBase == <<"h", "t", "t", "p", "s", ":", "/", "/", "c", "d", "n", "/", "v", "/">>
FileNames ==
    { <<"a", ".", "j", "p", "g">>,
      <<"a", ".", "J", "P", "G">>,
      <<"a", ".", "j", "p", "e", "g">>,
      <<"a", ".", "p", "n", "g">>,
      <<"a", ".", "m", "p", "4">>,
      <<"a", ".", "m", "o", "v">>,
      <<"a", ".", "w", "e", "b", "p">>,
      <<"a">>,
      <<".", "j", "p", "g">> }
Queries == { <<>>, <<"?", "x", "=", "1">>, <<"?", "s", "=", "1", ".", "5">> }
Urls == { UrlBase \o n \o q : n \in FileNames, q \in Queries }

ContentTypes ==
    { "undefined", "", "image/jpeg", "image/png", "video/mp4", "video/quicktime",
      "image/webp", "application/octet-stream", "image/jpeg; charset=binary" }

(***************************************************************************)
(* The scratch directory: path -> [isFile, age], age in clock ticks.       *)
(***************************************************************************)
EmptyDir == [p \in {} |-> [isFile |-> TRUE, age |-> 0]]

Without(dir, ps) == [p \in (DOMAIN dir) \ ps |-> dir[p]]

\* fs.createWriteStream(filePath): a new regular file, modified now.
createFile(dir, p) ==
    [q \in (DOMAIN dir) \cup {p} |-> IF q = p THEN [isFile |-> TRUE, age |-> 0] ELSE dir[q]]

\* DownloaderService.cleanupFile
cleanupFile(dir, p) == IF p \in DOMAIN dir THEN Without(dir, {p}) ELSE dir

\* The entries one cleanupTempFiles(olderFilesOnly) call unlinks.
cleanupVictims(dir, olderFilesOnly) ==
    { p \in DOMAIN dir :
        /\ dir[p].isFile
        /\ ~(olderFilesOnly /\ dir[p].age <= debugFileTTL) }

\* DownloaderService.cleanupTempFiles
cleanupTempFiles(dir, olderFilesOnly) == Without(dir, cleanupVictims(dir, olderFilesOnly))

\* cleanupFile without its try block.
cleanupFile_call_noCatch(dir, p, unlinkOk) ==
    IF p \notin DOMAIN dir THEN [dir |-> dir, threw |-> FALSE]
    ELSE IF dir[p].isFile /\ unlinkOk
         THEN [dir |-> Without(dir, {p}), threw |-> FALSE]
         ELSE [dir |-> dir, threw |-> TRUE]

\* DownloaderService.cleanupFile(p) with the outcome of fs.unlinkSync: the
\* directory afterwards and whether the call threw.  unlinkSync fails on
\* what is no regular file, and when unlinkOk is false.
cleanupFile_call(dir, p, unlinkOk) ==
    IF p \notin DOMAIN dir THEN [dir |-> dir, threw |-> FALSE]
    ELSE IF dir[p].isFile /\ unlinkOk
         THEN [dir |-> Without(dir, {p}), threw |-> FALSE]
         ELSE [dir |-> dir, threw |-> FALSE]

\* fs.readdirSync(tempDir) of a directory whose paths are numbers: the
\* entries in the order of their names.
readdirSync(dir) ==
    LET present(p) == p \in DOMAIN dir
    IN SelectSeq([p \in 1..MaxEntries |-> p], present)

\* The loop of cleanupTempFiles with one try block around the whole loop:
\* the first error ends the sweep.
RECURSIVE sweepLoop_abort(_, _, _, _, _)
sweepLoop_abort(dir, files, k, olderFilesOnly, failing) ==
    IF k > Len(files) THEN dir
    ELSE LET p == files[k]
         IN IF p \in failing THEN dir
            ELSE sweepLoop_abort(
                  IF ~dir[p].isFile THEN dir
                  ELSE IF olderFilesOnly /\ dir[p].age <= debugFileTTL THEN dir
                  ELSE Without(dir, {p}),
                  files, k + 1, olderFilesOnly, failing)

\* for (const file of files) { try { ... } catch { } }: the directory after
\* the entries from k on; statSync or unlinkSync throws for the entries in
\* failing, and the catch block goes on with the next entry.
RECURSIVE sweepLoop(_, _, _, _, _)
sweepLoop(dir, files, k, olderFilesOnly, failing) ==
    IF k > Len(files) THEN dir
    ELSE LET p == files[k]
         IN sweepLoop(
               IF p \in failing THEN dir
               ELSE IF ~dir[p].isFile THEN dir
               ELSE IF olderFilesOnly /\ dir[p].age <= debugFileTTL THEN dir
               ELSE Without(dir, {p}),
               files, k + 1, olderFilesOnly, failing)

\* DownloaderService.cleanupTempFiles(olderFilesOnly) with the entries on
\* which a file-system call fails.
cleanupTempFiles_call(dir, olderFilesOnly, failing) ==
    [dir |-> sweepLoop(dir, readdirSync(dir), 1, olderFilesOnly, failing),
     threw |-> FALSE]

\* The directories of SpecScratch: regular files modified just now, one TTL
\* ago and longer ago, and subdirectories.
ScratchEntries ==
    { [isFile |-> TRUE, age |-> a] : a \in {0, debugFileTTL, debugFileTTL + 1} }
    \cup { [isFile |-> FALSE, age |-> debugFileTTL + 1] }

ScratchDirs == UNION { [S -> ScratchEntries] : S \in SUBSET (1..MaxEntries) }

\* The file name of the download of item j: "g" for the download started by
\* sendMediaGroup, "s" for the one started by sendMediaItem (random names:
\* no two downloads share one).
Path(j, by) == <<j, by>>


(***************************************************************************)
(* State.                                                                  *)
(***************************************************************************)
VARIABLES
    \* sendMediaItems(ctx, items, originalMessageId) and config.useMediaGroups
    items, originalMessageId, useMediaGroups,
    \* sendMediaItems: position, group index i, item index i, successCount,
    \* the returned count, whether its try block threw
    pc, gi, ii, successCount, ret, bodyThrew,
    \* sendMediaGroup: position, its result, fallback index i, sentCount,
    \* whether a file of the album was missing when the album send started
    gpc, gres, fi, sentCount, albumDoomed,
    \* sendMediaItem: position, the item it was called with, its result
    ipc, cur, ires,
    \* the downloads started by sendMediaGroup, per item
    dl,
    \* the scratch directory
    tempDir,
    \* the send calls in flight
    sends,
    \* environment: failures injected so far
    faults,
    \* history: items delivered (in order), paths created, the current
    \* sendMediaItem call, items sendMediaItem was called with, groups
    \* sendMediaGroup was called with, groups that fell back, what the
    \* probes of each item's URL declared, ages of the files timers deleted,
    \* origin-message deletions attempted, whether one failed, send calls
    \* started, and their number when the origin deletion was attempted
    delivered, created, call, attempts, groupCalls, fellBack, declared,
    timerDeleted, originDeletes, deleteFailed, sendAttempts, sendsAtDelete,
    \* SpecSplit: the list given to splitIntoGroups and its result
    sp_items, sp_groups, sp_done,
    \* SpecDownload: the transport responses and the outcome of downloadFile
    d_resp, d_out, d_done,
    \* SpecShortcode: the text given to InstagramHandler.extractShortcode and
    \* isInstagramUrl, their results, and the result of
    \* InstagramService.extractShortcode for the same text
    sc_text, sc_out, sc_is, sc_done, sc_svc,
    \* SpecResolve: the payload given to extractMediaItems, the list it
    \* returned, whether the call is over, and whether it threw
    r_payload, r_out, r_done, r_threw,
    \* history: text messages that reached the conversation, the processing
    \* message apart; whether a download of a group has succeeded while an
    \* earlier one of the group was in flight
    textsSent, overtaken,
    \* the message:text handler: the text of the message, the position of
    \* the handler, the position of updateProcessingMessage and the text
    \* it was called with, the processing message as the conversation
    \* shows it, processing messages created, deletions of the processing
    \* message attempted, the updateProcessingMessage
    \* calls that have ended, getMediaItems calls that have settled and the
    \* length of the list returned (-1: none), ctx.session.activeSessions,
    \* ctx.session.totalProcessed, whether the handler's catch block ran
    b_text, hpc, upc, utext, status, statusCreated, statusDeletes, updates, fetchCalls,
    fetched, activeSessions, totalProcessed, handlerCaught,
    \* what the metadata call of the request met ("none": no call yet)
    upstream,
    \* SpecScratch: a scratch directory and the cleanupFile and
    \* cleanupTempFiles calls made on it, each with the directory before and
    \* after it
    sd_dir, sd_log,
    \* SpecExtension: the URL and the content type given to getFileExtension,
    \* and its result
    x_url, x_type, x_out, x_done,
    \* the configuration commands: whether start() has run, config.logLevel,
    \* the last command handled with its sender and the reply it got
    \* (config.useMediaGroups is useMediaGroups)
    started, logLevel, lastCmd,
    \* startBot: config.botToken, the position of startBot ("running" once
    \* the bot polls, "exited" after process.exit(1)), and the call whose
    \* failure led to process.exit(1)
    botToken, spc, exitCause

inputVars == <<items, originalMessageId, useMediaGroups>>
mainVars == <<pc, gi, ii, successCount, ret, bodyThrew>>
groupVars == <<gpc, gres, fi, sentCount, albumDoomed>>
itemVars == <<ipc, cur, ires, call>>
envVars == <<faults>>
finallyVars == <<originDeletes, deleteFailed, sendsAtDelete>>
splitVars == <<sp_items, sp_groups, sp_done>>
downloadVars == <<d_resp, d_out, d_done>>
shortcodeVars == <<sc_text, sc_out, sc_is, sc_done, sc_svc>>
\* The front of the pipeline: link classifier, resolver, message handler.
resolveVars == <<r_payload, r_out, r_done, r_threw>>
replyVars == <<textsSent, overtaken>>
controlVars == <<hpc, upc, utext, activeSessions, totalProcessed, handlerCaught>>
botVars ==
    <<b_text, controlVars, status, statusCreated, statusDeletes, updates, fetchCalls,
      fetched, upstream>>
frontVars == <<shortcodeVars, resolveVars, botVars>>
scratchVars == <<sd_dir, sd_log>>
extensionVars == <<x_url, x_type, x_out, x_done>>
\* The calls checked one at a time.
adminVars == <<started, logLevel, lastCmd>>
startupVars == <<botToken, spc, exitCause>>
unitVars == <<scratchVars, extensionVars, adminVars, startupVars>>
\* Everything of the delivery.
deliveryVars ==
    <<inputVars, mainVars, groupVars, itemVars, envVars, finallyVars, dl, tempDir,
      sends, delivered, created, attempts, groupCalls, fellBack, declared,
      timerDeleted, sendAttempts>>

vars == <<items, originalMessageId, useMediaGroups, pc, gi, ii, successCount, ret,
          bodyThrew, gpc, gres, fi, sentCount, albumDoomed, ipc, cur, ires, dl,
          tempDir, sends, faults, delivered, created, call, attempts,
          groupCalls, fellBack, declared, timerDeleted, originDeletes,
          deleteFailed, sendAttempts, sendsAtDelete, sp_items, sp_groups, sp_done,
          d_resp, d_out, d_done, sc_text, sc_out, sc_is, sc_done, sc_svc,
          r_payload, r_out, r_done, r_threw, textsSent, overtaken, b_text, hpc, upc, utext, status,
          statusCreated, statusDeletes, updates, fetchCalls, fetched, activeSessions,
          totalProcessed, handlerCaught, upstream, sd_dir, sd_log,
          x_url, x_type, x_out, x_done, started, logLevel, lastCmd,
          botToken, spc, exitCause>>

\* ctx.chat of a message update
chatPresent == TRUE

NewCall == [dlOk |-> FALSE, fileSends |-> 0, fileOk |-> FALSE,
            urlSends |-> 0, urlOk |-> FALSE, urlType |-> "none"]

groups == splitIntoGroups(items)
\* The items of a group in reverse.
GroupSeq_reversed(g) ==
    [k \in 1..Len(groups[g]) |-> groups[g][Len(groups[g]) + 1 - k].id]

GroupSeq(g) == [k \in 1..Len(groups[g]) |-> groups[g][k].id]
GroupIds(g) == Range(GroupSeq(g))
GroupOf(j) == CHOOSE g \in 1..Len(groups) : j \in GroupIds(g)

FileSend(j) == [via |-> "file", type |-> items[j].type, of |-> j]
UrlSend(j) == [via |-> "url", type |-> items[j].type, of |-> j]
TextSend(j) == [via |-> "text", type |-> "text", of |-> j]
\* The album with every entry of the type of the first item of the group.
AlbumSend_firstType(g) ==
    [via |-> "album", of |-> g,
     type |-> [k \in 1..Len(groups[g]) |->
                 [type |-> IF groups[g][1].type = VIDEO THEN "video" ELSE "photo",
                  media |-> Path(groups[g][k].id, "g")]]]

\* ctx.replyWithMediaGroup(mediaGroup) for group g: entry k has the type of
\* items[k] and the file that the k-th download of Promise.all gave.
AlbumSend(g) ==
    [via |-> "album", of |-> g,
     type |-> [k \in 1..Len(groups[g]) |->
                 [type |-> IF groups[g][k].type = VIDEO THEN "video" ELSE "photo",
                  media |-> Path(groups[g][k].id, "g")]]]

DeliveryAt(p) ==
    /\ pc = p /\ gi = 0 /\ ii = 0 /\ successCount = 0 /\ ret = -1
    /\ bodyThrew = FALSE
    /\ gpc = "idle" /\ gres = FALSE /\ fi = 0 /\ sentCount = 0 /\ albumDoomed = FALSE
    /\ ipc = "idle" /\ cur = 0 /\ ires = "none" /\ call = NewCall
    /\ dl = [j \in 1..Len(items) |-> "none"]
    /\ tempDir = EmptyDir
    /\ sends = {}
    /\ faults = 0
    /\ delivered = <<>> /\ created = {} /\ attempts = <<>> /\ groupCalls = <<>>
    /\ fellBack = {} /\ declared = [j \in 1..Len(items) |-> "unknown"]
    /\ timerDeleted = {}
    /\ originDeletes = 0 /\ deleteFailed = FALSE /\ sendAttempts = 0
    /\ sendsAtDelete = -1
    /\ textsSent = 0 /\ overtaken = FALSE

\* sendMediaItems has just been called.
InitDelivery == DeliveryAt("idle")

\* The requests <<items.length, config.useMediaGroups>>: short item lists
\* with and without grouping, and the longest list with grouping.
Requests ==
    ((0..MaxShort) \X BOOLEAN) \cup ({MaxItems} \X {TRUE})

SplitIdle == sp_items = <<>> /\ sp_groups = <<>> /\ sp_done = FALSE
DownloadIdle ==
    /\ d_resp = Response("ok", NoHeader, "ok", "finish")
    /\ d_out = NoOutcome
    /\ d_done = FALSE
ShortcodeIdle ==
    /\ sc_text = <<>> /\ sc_out = noShortcode /\ sc_is = FALSE /\ sc_done = FALSE
    /\ sc_svc = noShortcode
ResolveIdle ==
    r_payload = NoPayload /\ r_out = <<>> /\ r_done = FALSE /\ r_threw = FALSE
NoStatus == [exists |-> FALSE, text |-> "none"]
BotIdle ==
    /\ b_text = <<>> /\ hpc = "waiting" /\ upc = "none" /\ utext = "none"
    /\ status = NoStatus /\ statusCreated = 0 /\ statusDeletes = 0 /\ updates = <<>>
    /\ fetchCalls = 0 /\ fetched = -1 /\ upstream = "none"
    /\ activeSessions = 0 /\ totalProcessed = 0 /\ handlerCaught = FALSE
FrontIdle == ShortcodeIdle /\ ResolveIdle /\ BotIdle
ScratchIdle == sd_dir = EmptyDir /\ sd_log = <<>>
ExtensionIdle == x_url = <<>> /\ x_type = "undefined" /\ x_out = <<>> /\ x_done = FALSE
NoCmd == [cmd |-> "none", from |-> NoSender, reply |-> "none"]
AdminIdle == started = TRUE /\ logLevel = 0 /\ lastCmd = NoCmd
\* A BOT_TOKEN of the environment
Token == "123456:token"
\* startBot has run and the bot polls.
StartupIdle == botToken = Token /\ spc = "running" /\ exitCause = "none"
UnitIdle == ScratchIdle /\ ExtensionIdle /\ AdminIdle /\ StartupIdle

Init ==
    /\ \E q \in Requests : items = MediaItems(q[1]) /\ useMediaGroups = q[2]
    /\ originalMessageId \in {NoId, 1}
    /\ InitDelivery
    /\ SplitIdle
    /\ DownloadIdle
    /\ FrontIdle
    /\ UnitIdle

(***************************************************************************)
(* The environment of the downloads of a request.                          *)
(***************************************************************************)
\* What a probe of the URL of item j declared: the length behind a URL does
\* not change within a request.
Declares(r) == IF tooLarge(contentLengthOf(r.header)) THEN "over" ELSE "under"

ResponsesFor(j) ==
    {r \in DeliveryResponses : declared[j] # "unknown" => Declares(r) = declared[j]}

Probed(j, r) == IF r.probe = "ok" THEN [declared EXCEPT ![j] = Declares(r)] ELSE declared

\* A failed download counts as a disturbance unless the URL was already
\* known to declare too large a length.
Injected(j, o) == ~o.ok /\ ~(o.tooLarge /\ declared[j] = "over")

tooLargeItems == {j \in DOMAIN declared : declared[j] = "over"}

(***************************************************************************)
(* TelegramHandler.sendMediaItem                                           *)
(***************************************************************************)
\* sendMediaItem(ctx, items[j]) is called: it runs to its first await, the
\* download of the item.
CallItem(j) ==
    /\ ipc' = "download" /\ cur' = j /\ ires' = "none" /\ call' = NewCall
    /\ attempts' = Append(attempts, j)

ItemIdle ==
    /\ ipc' = "idle" /\ cur' = 0 /\ ires' = "none" /\ call' = NewCall
    /\ UNCHANGED attempts

\* await downloadMediaItem(item) settles; on success the file send starts,
\* on failure the catch block starts the direct-URL send.
sendMediaItem_downloaded ==
    /\ ipc = "download"
    /\ \E r \in ResponsesFor(cur) :
         LET o == downloadFile(r) IN
         /\ Injected(cur, o) => faults < MaxFaults
         /\ faults' = IF Injected(cur, o) THEN faults + 1 ELSE faults
         /\ tempDir' = IF o.file THEN createFile(tempDir, Path(cur, "s")) ELSE tempDir
         /\ created' = IF o.file THEN created \cup {Path(cur, "s")} ELSE created
         /\ declared' = Probed(cur, r)
         /\ IF o.ok
            THEN /\ ipc' = "sendFile"
                 /\ sends' = sends \cup {FileSend(cur)}
                 /\ call' = [call EXCEPT !.dlOk = TRUE, !.fileSends = @ + 1]
            ELSE /\ ipc' = "sendUrl"
                 /\ sends' = sends \cup {UrlSend(cur)}
                 /\ call' = [call EXCEPT !.urlSends = @ + 1, !.urlType = items[cur].type]
    /\ sendAttempts' = sendAttempts + 1
    /\ UNCHANGED <<cur, ires, dl, delivered, attempts, groupCalls, fellBack,
                   timerDeleted>>
    /\ UNCHANGED <<inputVars, mainVars, groupVars, finallyVars, splitVars, downloadVars, frontVars, replyVars, unitVars>>

\* sendMediaItem with a catch block that returns false without the direct-URL
\* send when the file send has failed.
sendMediaItem_fileSent_noFallback ==
    /\ ipc = "sendFile"
    /\ \/ /\ tempDir' = cleanupFile(tempDir, Path(cur, "s"))
          /\ ires' = "true"
          /\ call' = [call EXCEPT !.fileOk = TRUE]
          /\ delivered' = Append(delivered, cur)
          /\ UNCHANGED faults
       \/ /\ faults < MaxFaults
          /\ faults' = faults + 1
          /\ ires' = "false"
          /\ UNCHANGED <<tempDir, delivered, call>>
    /\ ipc' = "ret"
    /\ sends' = sends \ {FileSend(cur)}
    /\ UNCHANGED <<cur, dl, created, attempts, groupCalls, fellBack,
                   declared, timerDeleted, sendAttempts>>
    /\ UNCHANGED <<inputVars, mainVars, groupVars, finallyVars, splitVars, downloadVars, frontVars, replyVars, unitVars>>

\* await ctx.replyWithVideo(file) / replyWithPhoto(file) settles: the file is
\* cleaned up and true is returned, or the catch block starts the direct-URL
\* send.  A send whose file is gone may fail without a transport failure.
sendMediaItem_fileSent ==
    /\ ipc = "sendFile"
    /\ \/ /\ tempDir' = cleanupFile(tempDir, Path(cur, "s"))
          /\ ipc' = "ret" /\ ires' = "true"
          /\ sends' = sends \ {FileSend(cur)}
          /\ call' = [call EXCEPT !.fileOk = TRUE]
          /\ delivered' = Append(delivered, cur)
          /\ UNCHANGED <<faults, sendAttempts>>
       \/ /\ faults < MaxFaults \/ Path(cur, "s") \notin DOMAIN tempDir
          /\ faults' = IF Path(cur, "s") \in DOMAIN tempDir THEN faults + 1 ELSE faults
          /\ ipc' = "sendUrl" /\ ires' = ires
          /\ sends' = (sends \ {FileSend(cur)}) \cup {UrlSend(cur)}
          /\ sendAttempts' = sendAttempts + 1
          /\ call' = [call EXCEPT !.urlSends = @ + 1, !.urlType = items[cur].type]
          /\ UNCHANGED <<tempDir, delivered>>
    /\ UNCHANGED <<cur, dl, created, attempts, groupCalls, fellBack,
                   declared, timerDeleted>>
    /\ UNCHANGED <<inputVars, mainVars, groupVars, finallyVars, splitVars, downloadVars, frontVars, replyVars, unitVars>>

\* await ctx.replyWithVideo(item.url) / replyWithPhoto(item.url) settles; on
\* failure the failure text is sent with ctx.reply.
sendMediaItem_urlSent ==
    /\ ipc = "sendUrl"
    /\ \/ /\ ipc' = "ret" /\ ires' = "true"
          /\ sends' = sends \ {UrlSend(cur)}
          /\ call' = [call EXCEPT !.urlOk = TRUE]
          /\ delivered' = Append(delivered, cur)
          /\ UNCHANGED <<faults, sendAttempts>>
       \/ /\ faults < MaxFaults
          /\ faults' = faults + 1
          /\ ipc' = "reply" /\ ires' = ires
          /\ sends' = (sends \ {UrlSend(cur)}) \cup {TextSend(cur)}
          /\ sendAttempts' = sendAttempts + 1
          /\ UNCHANGED <<call, delivered>>
    /\ UNCHANGED <<cur, dl, tempDir, created, attempts, groupCalls, fellBack,
                   declared, timerDeleted>>
    /\ UNCHANGED <<inputVars, mainVars, groupVars, finallyVars, splitVars, downloadVars, frontVars, replyVars, unitVars>>

\* await ctx.reply(`Failed to send ...`) settles: return false, or the
\* rejection leaves sendMediaItem.
sendMediaItem_replied ==
    /\ ipc = "reply"
    /\ \/ /\ ires' = "false"
          /\ textsSent' = textsSent + 1
          /\ UNCHANGED overtaken
          /\ UNCHANGED faults
       \/ /\ UNCHANGED <<faults, textsSent, overtaken>>
          /\ ires' = "throw"
    /\ ipc' = "ret"
    /\ sends' = sends \ {TextSend(cur)}
    /\ UNCHANGED <<cur, call, dl, tempDir, delivered, created, attempts,
                   groupCalls, fellBack, declared, timerDeleted, sendAttempts>>
    /\ UNCHANGED <<inputVars, mainVars, groupVars, finallyVars, splitVars, downloadVars,
                   frontVars, unitVars>>

(***************************************************************************)
(* TelegramHandler.sendMediaItems: the finally block, TelegramHandler.      *)
(* deleteMessage                                                           *)
(***************************************************************************)
\* sendMediaItems with the deletion after the try block instead of in a
\* finally block: an exception of the try block skips it.
Finally_afterTry(cnt, threw) ==
    /\ successCount' = cnt
    /\ bodyThrew' = threw
    /\ UNCHANGED deleteFailed
    /\ IF originalMessageId # NoId /\ chatPresent /\ ~threw
       THEN /\ pc' = "deleting"
            /\ originDeletes' = originDeletes + 1
            /\ sendsAtDelete' = sendAttempts
            /\ UNCHANGED ret
       ELSE /\ pc' = IF threw THEN "threw" ELSE "returned"
            /\ ret' = IF threw THEN ret ELSE cnt
            /\ UNCHANGED <<originDeletes, sendsAtDelete>>

\* The try block is left with successCount = cnt, by an exception if threw:
\* the finally block starts the deletion of the origin message when an id
\* was given, else sendMediaItems is left at once.
Finally(cnt, threw) ==
    /\ successCount' = cnt
    /\ bodyThrew' = threw
    /\ UNCHANGED deleteFailed
    /\ IF originalMessageId # NoId /\ chatPresent
       THEN /\ pc' = "deleting"
            /\ originDeletes' = originDeletes + 1
            /\ sendsAtDelete' = sendAttempts
            /\ UNCHANGED ret
       ELSE /\ pc' = IF threw THEN "threw" ELSE "returned"
            /\ ret' = IF threw THEN ret ELSE cnt
            /\ UNCHANGED <<originDeletes, sendsAtDelete>>

\* await this.deleteMessage(ctx, originalMessageId) settles: deleteMessage
\* catches a failed deletion and returns false; then `return successCount`,
\* or the exception of the try block goes on.
deleteMessage_settled ==
    /\ pc = "deleting"
    /\ \E ok \in BOOLEAN : deleteFailed' = ~ok
    /\ pc' = IF bodyThrew THEN "threw" ELSE "returned"
    /\ ret' = IF bodyThrew THEN ret ELSE successCount
    /\ UNCHANGED <<gi, ii, successCount, bodyThrew, originDeletes, sendsAtDelete>>
    /\ UNCHANGED <<inputVars, groupVars, itemVars, envVars, splitVars, downloadVars, frontVars, replyVars, unitVars>>
    /\ UNCHANGED <<dl, tempDir, sends, delivered, created, attempts, groupCalls,
                   fellBack, declared, timerDeleted, sendAttempts>>

(***************************************************************************)
(* TelegramHandler.sendMediaGroup                                          *)
(***************************************************************************)
\* sendMediaGroup that also starts the downloads of the group after its own.
CallGroup_prefetch(g) ==
    /\ gpc' = "downloads" /\ gres' = FALSE /\ fi' = 0 /\ sentCount' = 0
    /\ albumDoomed' = FALSE
    /\ dl' = [j \in DOMAIN dl |->
                IF j \in GroupIds(g) \/ (g < Len(groups) /\ j \in GroupIds(g + 1))
                THEN "inflight" ELSE dl[j]]
    /\ groupCalls' = Append(groupCalls, g)

\* A download of a group may fail while at most this many other downloads of
\* the group are still in flight: any number within MaxOvertake in a short
\* request, none in the longest one.
MaxLinger == IF Len(items) <= MaxShort THEN MaxOvertake ELSE 0

\* sendMediaGroup(ctx, groups[g]) is called: items.map starts every download
\* of the group, and Promise.all is awaited.
CallGroup(g) ==
    /\ gpc' = "downloads" /\ gres' = FALSE /\ fi' = 0 /\ sentCount' = 0
    /\ albumDoomed' = FALSE
    /\ dl' = [j \in DOMAIN dl |-> IF j \in GroupIds(g) THEN "inflight" ELSE dl[j]]
    /\ groupCalls' = Append(groupCalls, g)

\* The catch block of sendMediaGroup: the individual fallback starts with
\* the first item of the group.
StartFallback ==
    /\ gpc' = "fallback" /\ fi' = 1 /\ sentCount' = 0
    /\ fellBack' = fellBack \cup {gi}
    /\ CallItem(GroupSeq(gi)[1])
    /\ UNCHANGED <<gres, albumDoomed>>

\* return sentCount > 0
fallbackResult(count) == count > 0

\* A download started by sendMediaGroup settles.  While Promise.all is
\* awaited, the first rejection starts the fallback and the last fulfilment
\* starts the album send; a download that settles after Promise.all has
\* rejected is observed by nobody.
download_settled(j) ==
    /\ dl[j] = "inflight"
    /\ Cardinality({i \in GroupIds(GroupOf(j)) : i < j /\ dl[i] = "inflight"}) <= MaxOvertake
    /\ \E r \in ResponsesFor(j) :
         LET o == downloadFile(r)
             awaited == pc = "group" /\ gpc = "downloads" /\ j \in GroupIds(gi)
             dir == IF o.file THEN createFile(tempDir, Path(j, "g")) ELSE tempDir
             allOk == \A i \in GroupIds(gi) \ {j} : dl[i] = "ok"
         IN
         /\ Injected(j, o) => faults < MaxFaults
         /\ (awaited /\ ~o.ok) =>
               Cardinality({i \in GroupIds(gi) \ {j} : dl[i] = "inflight"}) <= MaxLinger
         /\ faults' = IF Injected(j, o) THEN faults + 1 ELSE faults
         /\ dl' = [dl EXCEPT ![j] = IF o.ok THEN "ok" ELSE "failed"]
         /\ tempDir' = dir
         /\ created' = IF o.file THEN created \cup {Path(j, "g")} ELSE created
         /\ declared' = Probed(j, r)
         /\ overtaken' = (\/ overtaken
                          \/ /\ o.ok
                             /\ \E i \in GroupIds(GroupOf(j)) : i < j /\ dl[i] = "inflight")
         /\ IF awaited /\ ~o.ok
            THEN /\ StartFallback
                 /\ UNCHANGED <<sends, sendAttempts>>
            ELSE IF awaited /\ o.ok /\ allOk
            THEN /\ gpc' = "album"
                 /\ albumDoomed' = \E i \in GroupIds(gi) : Path(i, "g") \notin DOMAIN dir
                 /\ sends' = sends \cup {AlbumSend(gi)}
                 /\ sendAttempts' = sendAttempts + 1
                 /\ UNCHANGED <<gres, fi, sentCount, fellBack, itemVars, attempts>>
            ELSE UNCHANGED <<groupVars, fellBack, itemVars, attempts, sends, sendAttempts>>
    /\ UNCHANGED <<delivered, groupCalls, timerDeleted, textsSent>>
    /\ UNCHANGED <<inputVars, mainVars, finallyVars, splitVars, downloadVars, frontVars, unitVars>>

\* sendMediaGroup whose catch block also runs after an album send that
\* succeeded.
sendMediaGroup_albumSent_thenFallback ==
    /\ pc = "group" /\ gpc = "album"
    /\ \/ /\ ~albumDoomed
          /\ tempDir' = Without(tempDir, {Path(i, "g") : i \in GroupIds(gi)})
          /\ delivered' = delivered \o GroupSeq(gi)
          /\ StartFallback
          /\ UNCHANGED faults
       \/ /\ albumDoomed \/ faults < MaxFaults
          /\ faults' = IF albumDoomed THEN faults ELSE faults + 1
          /\ StartFallback
          /\ UNCHANGED <<tempDir, delivered>>
    /\ sends' = sends \ {AlbumSend(gi)}
    /\ UNCHANGED <<dl, created, groupCalls, declared, timerDeleted,
                   sendAttempts>>
    /\ UNCHANGED <<inputVars, mainVars, finallyVars, splitVars, downloadVars, frontVars, replyVars, unitVars>>

\* await ctx.replyWithMediaGroup(mediaGroup) settles: the files are cleaned
\* up and true is returned, or the catch block starts the fallback.  The
\* send fails when a file of the album was gone when it started.
sendMediaGroup_albumSent ==
    /\ pc = "group" /\ gpc = "album"
    /\ \/ /\ ~albumDoomed
          /\ tempDir' = Without(tempDir, {Path(i, "g") : i \in GroupIds(gi)})
          /\ gpc' = "ret" /\ gres' = TRUE
          /\ delivered' = delivered \o GroupSeq(gi)
          /\ UNCHANGED <<fi, sentCount, albumDoomed, fellBack, itemVars, attempts, faults>>
       \/ /\ albumDoomed \/ faults < MaxFaults
          /\ faults' = IF albumDoomed THEN faults ELSE faults + 1
          /\ StartFallback
          /\ UNCHANGED <<tempDir, delivered>>
    /\ sends' = sends \ {AlbumSend(gi)}
    /\ UNCHANGED <<dl, created, groupCalls, declared, timerDeleted,
                   sendAttempts>>
    /\ UNCHANGED <<inputVars, mainVars, finallyVars, splitVars, downloadVars, frontVars, replyVars, unitVars>>

\* The fallback loop with the try/catch around the loop instead of inside
\* it: a throw of sendMediaItem ends the loop.
sendMediaGroup_itemReturned_abort ==
    /\ pc = "group" /\ gpc = "fallback" /\ ipc = "ret"
    /\ LET n == Len(GroupSeq(gi))
           cnt == IF ires = "true" THEN sentCount + 1 ELSE sentCount
       IN
       /\ sentCount' = cnt
       /\ IF fi < n /\ ires # "throw"
          THEN /\ gpc' = "fallbackDelay"
               /\ ItemIdle
               /\ UNCHANGED <<fi, gres>>
          ELSE /\ gpc' = "ret" /\ gres' = fallbackResult(cnt)
               /\ ItemIdle
               /\ UNCHANGED fi
    /\ UNCHANGED <<albumDoomed, dl, tempDir, sends, delivered, created, groupCalls,
                   fellBack, declared, timerDeleted, sendAttempts>>
    /\ UNCHANGED <<inputVars, mainVars, envVars, finallyVars, splitVars, downloadVars, frontVars, replyVars, unitVars>>

\* The fallback loop: sendMediaItem has returned or thrown for items[i];
\* a throw skips the delay; after the last item sentCount > 0 is returned.
sendMediaGroup_itemReturned ==
    /\ pc = "group" /\ gpc = "fallback" /\ ipc = "ret"
    /\ LET n == Len(GroupSeq(gi))
           cnt == IF ires = "true" THEN sentCount + 1 ELSE sentCount
       IN
       /\ sentCount' = cnt
       /\ IF fi < n
          THEN IF ires = "throw"
               THEN /\ fi' = fi + 1
                    /\ CallItem(GroupSeq(gi)[fi + 1])
                    /\ UNCHANGED <<gpc, gres>>
               ELSE /\ gpc' = "fallbackDelay"
                    /\ ItemIdle
                    /\ UNCHANGED <<fi, gres>>
          ELSE /\ gpc' = "ret" /\ gres' = fallbackResult(cnt)
               /\ ItemIdle
               /\ UNCHANGED fi
    /\ UNCHANGED <<albumDoomed, dl, tempDir, sends, delivered, created, groupCalls,
                   fellBack, declared, timerDeleted, sendAttempts>>
    /\ UNCHANGED <<inputVars, mainVars, envVars, finallyVars, splitVars, downloadVars, frontVars, replyVars, unitVars>>

\* The delay between two items of the fallback loop has passed.
sendMediaGroup_delayed ==
    /\ pc = "group" /\ gpc = "fallbackDelay"
    /\ gpc' = "fallback"
    /\ fi' = fi + 1
    /\ CallItem(GroupSeq(gi)[fi + 1])
    /\ UNCHANGED <<gres, sentCount, albumDoomed, dl, tempDir, sends, delivered,
                   created, groupCalls, fellBack, declared, timerDeleted,
                   sendAttempts>>
    /\ UNCHANGED <<inputVars, mainVars, envVars, finallyVars, splitVars, downloadVars, frontVars, replyVars, unitVars>>

(***************************************************************************)
(* TelegramHandler.sendMediaItems                                          *)
(***************************************************************************)
\* if (items.length === 0) return 0, before the try block.
sendMediaItems_empty ==
    /\ pc = "idle" /\ Len(items) = 0
    /\ pc' = "returned" /\ ret' = 0
    /\ UNCHANGED <<gi, ii, successCount, bodyThrew>>
    /\ UNCHANGED <<inputVars, groupVars, itemVars, envVars, finallyVars, splitVars,
                   downloadVars, frontVars, replyVars, unitVars>>
    /\ UNCHANGED <<dl, tempDir, sends, delivered, created, attempts, groupCalls,
                   fellBack, declared, timerDeleted, sendAttempts>>

\* One item: sendMediaItem(ctx, items[0]).
sendMediaItems_single ==
    /\ pc = "idle" /\ Len(items) = 1
    /\ pc' = "single"
    /\ CallItem(1)
    /\ UNCHANGED <<gi, ii, successCount, ret, bodyThrew>>
    /\ UNCHANGED <<inputVars, groupVars, envVars, finallyVars, splitVars, downloadVars, frontVars, replyVars, unitVars>>
    /\ UNCHANGED <<dl, tempDir, sends, delivered, created, groupCalls, fellBack,
                   declared, timerDeleted, sendAttempts>>

\* Several items, config.useMediaGroups set: splitIntoGroups, then
\* sendMediaGroup(ctx, groups[0]).
sendMediaItems_grouped ==
    /\ pc = "idle" /\ Len(items) > 1 /\ useMediaGroups
    /\ pc' = "group" /\ gi' = 1
    /\ CallGroup(1)
    /\ UNCHANGED <<ii, successCount, ret, bodyThrew>>
    /\ UNCHANGED <<inputVars, itemVars, envVars, finallyVars, splitVars, downloadVars, frontVars, replyVars, unitVars>>
    /\ UNCHANGED <<tempDir, sends, delivered, created, attempts, fellBack,
                   declared, timerDeleted, sendAttempts>>

\* Several items, config.useMediaGroups not set: sendMediaItem(ctx, items[0]).
sendMediaItems_individual ==
    /\ pc = "idle" /\ Len(items) > 1 /\ ~useMediaGroups
    /\ pc' = "indiv" /\ ii' = 1
    /\ CallItem(1)
    /\ UNCHANGED <<gi, successCount, ret, bodyThrew>>
    /\ UNCHANGED <<inputVars, groupVars, envVars, finallyVars, splitVars, downloadVars, frontVars, replyVars, unitVars>>
    /\ UNCHANGED <<dl, tempDir, sends, delivered, created, groupCalls, fellBack,
                   declared, timerDeleted, sendAttempts>>

\* The single item's sendMediaItem has returned (successCount = success ? 1
\* : 0) or thrown (the exception leaves the try block).
sendMediaItems_singleReturned ==
    /\ pc = "single" /\ ipc = "ret"
    /\ Finally(IF ires = "true" THEN 1 ELSE 0, ires = "throw")
    /\ ItemIdle
    /\ UNCHANGED <<gi, ii>>
    /\ UNCHANGED <<inputVars, groupVars, envVars, splitVars, downloadVars, frontVars, replyVars, unitVars>>
    /\ UNCHANGED <<dl, tempDir, sends, delivered, created, groupCalls, fellBack,
                   declared, timerDeleted, sendAttempts>>

\* The group loop counting one per album sent instead of the items of the
\* album.
sendMediaItems_groupReturned_countAlbums ==
    /\ pc = "group" /\ gpc = "ret"
    /\ LET cnt == IF gres THEN successCount + 1 ELSE successCount IN
       IF gi < Len(groups)
       THEN /\ pc' = "groupDelay"
            /\ successCount' = cnt
            /\ UNCHANGED <<ret, bodyThrew, finallyVars>>
       ELSE Finally(cnt, FALSE)
    /\ gpc' = "idle"
    /\ UNCHANGED <<gi, ii, gres, fi, sentCount, albumDoomed>>
    /\ UNCHANGED <<inputVars, itemVars, envVars, splitVars, downloadVars, frontVars, replyVars, unitVars>>
    /\ UNCHANGED <<dl, tempDir, sends, delivered, created, attempts, groupCalls,
                   fellBack, declared, timerDeleted, sendAttempts>>

\* The group loop: sendMediaGroup has returned for groups[i]; a delay
\* follows unless it was the last group.
sendMediaItems_groupReturned ==
    /\ pc = "group" /\ gpc = "ret"
    /\ LET cnt == IF gres THEN successCount + Len(groups[gi]) ELSE successCount IN
       IF gi < Len(groups)
       THEN /\ pc' = "groupDelay"
            /\ successCount' = cnt
            /\ UNCHANGED <<ret, bodyThrew, finallyVars>>
       ELSE Finally(cnt, FALSE)
    /\ gpc' = "idle"
    /\ UNCHANGED <<gi, ii, gres, fi, sentCount, albumDoomed>>
    /\ UNCHANGED <<inputVars, itemVars, envVars, splitVars, downloadVars, frontVars, replyVars, unitVars>>
    /\ UNCHANGED <<dl, tempDir, sends, delivered, created, attempts, groupCalls,
                   fellBack, declared, timerDeleted, sendAttempts>>

\* The delay between two groups has passed: sendMediaGroup(ctx, groups[i+1]).
sendMediaItems_groupDelayed ==
    /\ pc = "groupDelay"
    /\ pc' = "group" /\ gi' = gi + 1
    /\ CallGroup(gi + 1)
    /\ UNCHANGED <<ii, successCount, ret, bodyThrew>>
    /\ UNCHANGED <<inputVars, itemVars, envVars, finallyVars, splitVars, downloadVars, frontVars, replyVars, unitVars>>
    /\ UNCHANGED <<tempDir, sends, delivered, created, attempts, fellBack,
                   declared, timerDeleted, sendAttempts>>

\* The individual loop: sendMediaItem has returned or thrown for items[i]; a
\* throw skips the delay.
sendMediaItems_itemReturned ==
    /\ pc = "indiv" /\ ipc = "ret"
    /\ LET cnt == IF ires = "true" THEN successCount + 1 ELSE successCount IN
       IF ii < Len(items)
       THEN /\ successCount' = cnt
            /\ IF ires = "throw"
               THEN /\ ii' = ii + 1
                    /\ CallItem(ii + 1)
                    /\ UNCHANGED pc
               ELSE /\ pc' = "indivDelay"
                    /\ ItemIdle
                    /\ UNCHANGED ii
            /\ UNCHANGED <<ret, bodyThrew, finallyVars>>
       ELSE /\ Finally(cnt, FALSE)
            /\ ItemIdle
            /\ UNCHANGED ii
    /\ UNCHANGED gi
    /\ UNCHANGED <<inputVars, groupVars, envVars, splitVars, downloadVars, frontVars, replyVars, unitVars>>
    /\ UNCHANGED <<dl, tempDir, sends, delivered, created, groupCalls, fellBack,
                   declared, timerDeleted, sendAttempts>>

\* The individual loop reading config.useMediaGroups again after each
\* delay: set, the list goes out as groups.
sendMediaItems_itemDelayed_reread ==
    /\ pc = "indivDelay"
    /\ IF useMediaGroups
       THEN /\ pc' = "group" /\ gi' = 1
            /\ CallGroup(1)
            /\ UNCHANGED <<ii, itemVars, attempts>>
       ELSE /\ pc' = "indiv" /\ ii' = ii + 1
            /\ CallItem(ii + 1)
            /\ UNCHANGED <<gi, groupVars, dl, groupCalls>>
    /\ UNCHANGED <<successCount, ret, bodyThrew>>
    /\ UNCHANGED <<inputVars, envVars, finallyVars, splitVars, downloadVars, frontVars, replyVars, unitVars>>
    /\ UNCHANGED <<tempDir, sends, delivered, created, fellBack,
                   declared, timerDeleted, sendAttempts>>

\* The delay between two items has passed: sendMediaItem(ctx, items[i+1]).
sendMediaItems_itemDelayed ==
    /\ pc = "indivDelay"
    /\ pc' = "indiv" /\ ii' = ii + 1
    /\ CallItem(ii + 1)
    /\ UNCHANGED <<gi, successCount, ret, bodyThrew>>
    /\ UNCHANGED <<inputVars, groupVars, envVars, finallyVars, splitVars, downloadVars, frontVars, replyVars, unitVars>>
    /\ UNCHANGED <<dl, tempDir, sends, delivered, created, groupCalls, fellBack,
                   declared, timerDeleted, sendAttempts>>

(***************************************************************************)
(* The timers of the scratch directory, and the clock.                     *)
(***************************************************************************)
\* The file p is between the completion of its download and the end of the
\* send that consumes it: the file send of sendMediaItem, or the album of
\* the group sendMediaGroup is working on.
InUse(p) ==
    \/ ipc = "sendFile" /\ p = Path(cur, "s")
    \/ /\ pc = "group" /\ gpc \in {"downloads", "album"}
       /\ p[2] = "g" /\ p[1] \in GroupIds(gi)

\* One run of cleanupTempFiles(olderFilesOnly) from a timer.
Sweep(olderFilesOnly) ==
    /\ tempDir' = cleanupTempFiles(tempDir, olderFilesOnly)
    /\ timerDeleted' = timerDeleted \cup
         { [age |-> tempDir[p].age, inUse |-> InUse(p)] :
             p \in cleanupVictims(tempDir, olderFilesOnly) }
    /\ UNCHANGED <<inputVars, mainVars, groupVars, itemVars, finallyVars,
                   splitVars, downloadVars, frontVars, replyVars, unitVars>>
    /\ UNCHANGED <<dl, sends, delivered, created, attempts, groupCalls, fellBack,
                   declared, sendAttempts>>

\* TelegramHandler constructor: setInterval(() => cleanupTempFiles(), 1 h)
hourlyCleanup ==
    /\ Sweep(FALSE)
    /\ UNCHANGED envVars

\* DownloaderService constructor: setInterval(() => cleanupTempFiles(true), 15 min)
periodicCleanup ==
    /\ Sweep(TRUE)
    /\ UNCHANGED envVars

\* A clock tick (15 minutes) passes; no request lasts that long.  Ages
\* beyond debugFileTTL + 1 are not told apart.
Tick ==
    /\ pc \in {"idle", "returned", "threw"}
    /\ \E p \in DOMAIN tempDir : tempDir[p].age <= debugFileTTL
    /\ tempDir' = [p \in DOMAIN tempDir |->
                     [tempDir[p] EXCEPT !.age = Min(@ + 1, debugFileTTL + 1)]]
    /\ UNCHANGED <<inputVars, mainVars, groupVars, itemVars, envVars, finallyVars,
                   splitVars, downloadVars, frontVars, replyVars, unitVars>>
    /\ UNCHANGED <<dl, sends, delivered, created, attempts, groupCalls, fellBack,
                   declared, timerDeleted, sendAttempts>>

(***************************************************************************)
(* splitIntoGroups and downloadFile on their own.                          *)
(***************************************************************************)
\* splitIntoGroups(items) is called with the drawn list.
splitIntoGroups_called ==
    /\ ~sp_done
    /\ sp_groups' = splitIntoGroups(sp_items)
    /\ sp_done' = TRUE
    /\ UNCHANGED <<sp_items, inputVars, mainVars, groupVars, itemVars, envVars,
                   finallyVars, downloadVars, frontVars, replyVars, unitVars>>
    /\ UNCHANGED <<dl, tempDir, sends, delivered, created, attempts, groupCalls,
                   fellBack, declared, timerDeleted, sendAttempts>>

\* downloadFile(url, mediaType) is called against the drawn responses.
downloadFile_called ==
    /\ ~d_done
    /\ d_out' = downloadFile(d_resp)
    /\ d_done' = TRUE
    /\ UNCHANGED <<d_resp, inputVars, mainVars, groupVars, itemVars, envVars,
                   finallyVars, splitVars, frontVars, replyVars, unitVars>>
    /\ UNCHANGED <<dl, tempDir, sends, delivered, created, attempts, groupCalls,
                   fellBack, declared, timerDeleted, sendAttempts>>

(***************************************************************************)
(* BotService: the message:text handler, processInstagramUrl, and          *)
(* TelegramHandler.sendProcessingMessage / updateProcessingMessage.  A     *)
(* call to the messaging API or to the resolver may fail at any time.      *)
(***************************************************************************)
\* The texts of the messages: links with a supported and with an
\* unsupported type segment, a text without a link, and a link whose
\* segment after the type is empty.
BotTexts ==
    { LinkText(<<>>, h, t, <<"A">>, <<>>) :
        h \in SupportedHosts,
        t \in { <<"t", "v">>, <<"r", "e", "e", "l", "s">>,
                <<"s", "t", "o", "r", "i", "e", "s">> } }
    \cup { LinkText(<<>>, h, <<"p">>, <<>>, <<"?", "x">>) : h \in SupportedHosts }
    \cup { <<"h", "e", "l", "l", "o">> }

\* What axios.get of fetchPostData meets: an error, a response without
\* data.xdt_shortcode_media, a response with the media payload.
UpstreamOutcomes == {"error", "nodata", "payload"}

\* fetchPostData that returns null for a response without the payload.
fetchPostData_nullOnNoData(o) ==
    IF o = "error" THEN "threw"
    ELSE IF o = "nodata" THEN "null" ELSE "mediaData"

\* InstagramApiService.fetchPostData: one axios.get; it throws on an error
\* and on a response without the payload, else returns the payload.
fetchPostData(o) ==
    IF o = "error" THEN "threw"
    ELSE IF o = "nodata" THEN "threw" ELSE "mediaData"

\* The payloads the metadata call returns: carousels of up to MaxBotItems
\* image children, and the same with the last edge without its node.
RECURSIVE ImageEdges(_)
ImageEdges(n) ==
    IF n = 0 THEN <<>> ELSE Append(ImageEdges(n - 1), Node(FALSE, NoUrl, 20 + n))

Carousel(list) == [NoPayload EXCEPT !.typename = "GraphSidecar",
                                    !.edges = [kind |-> "array", list |-> list]]

BotPayloads ==
    { Carousel(ImageEdges(n)) : n \in 0..MaxBotItems }
    \cup { Carousel(Append(ImageEdges(n - 1), NoNode)) : n \in 1..MaxBotItems }

\* InstagramService.getMediaItems with the payload of fetchPostData: [] for
\* no payload, else what extractMediaItems makes of it.
getMediaItems(fetchResult, mediaData) ==
    IF fetchResult = "mediaData" THEN extractMediaItems(mediaData) ELSE Returned(<<>>)

\* The handler goes on at position p.
Goto(p) ==
    /\ hpc' = p
    /\ UNCHANGED <<upc, utext, activeSessions, totalProcessed, handlerCaught>>

\* updateProcessingMessage(ctx, processingMessageId, text) is called:
\* ctx.api.editMessageText is in flight.
StartUpdate(text) ==
    /\ hpc' = "update" /\ upc' = "edit" /\ utext' = text
    /\ UNCHANGED <<activeSessions, totalProcessed, handlerCaught>>

\* The handler without its catch block: an exception of processInstagramUrl
\* leaves the handler.
HandlerExit_noCatch(active, outcome) ==
    /\ hpc' = IF outcome = "threw" THEN "escaped" ELSE "done"
    /\ upc' = "none"
    /\ UNCHANGED <<utext, handlerCaught>>
    /\ totalProcessed' = IF outcome = "returned" THEN totalProcessed + 1
                         ELSE totalProcessed
    /\ activeSessions' = active - 1

\* The handler without its finally block: activeSessions is decremented
\* after the try statement, which an exception in it skips.
HandlerExit_noFinally(active, outcome) ==
    /\ hpc' = "done"
    /\ upc' = "none"
    /\ UNCHANGED utext
    /\ handlerCaught' = (outcome = "threw")
    /\ totalProcessed' = IF outcome = "returned" THEN totalProcessed + 1
                         ELSE totalProcessed
    /\ activeSessions' = IF outcome = "threw" THEN active ELSE active - 1

\* The end of the handler with activeSessions = active: processInstagramUrl
\* "returned" or "threw", or was "skipped"; the catch block logs what was
\* thrown, the finally block decrements activeSessions.
HandlerExit(active, outcome) ==
    /\ hpc' = "done"
    /\ upc' = "none"
    /\ UNCHANGED utext
    /\ handlerCaught' = (outcome = "threw")
    /\ totalProcessed' = IF outcome = "returned" THEN totalProcessed + 1
                         ELSE totalProcessed
    /\ activeSessions' = active - 1

\* The handler that processes every text, a link or not.
handler_received_anyText ==
    /\ hpc = "waiting" /\ spc = "running"
    /\ hpc' = "processing"
    /\ activeSessions' = activeSessions + 1
    /\ UNCHANGED <<upc, utext, totalProcessed, handlerCaught>>
    /\ UNCHANGED <<upstream, b_text, status, statusCreated, statusDeletes, updates,
                   fetchCalls, fetched>>
    /\ UNCHANGED <<deliveryVars, replyVars, splitVars, downloadVars, shortcodeVars,
                   resolveVars, unitVars>>

\* A text message arrives at the running bot: activeSessions++, and for a text with a link
\* processInstagramUrl is called, which calls sendProcessingMessage; for
\* any other text the handler ends at once.
handler_received ==
    /\ hpc = "waiting" /\ spc = "running"
    /\ IF isInstagramUrl(b_text)
       THEN /\ hpc' = "processing"
            /\ activeSessions' = activeSessions + 1
            /\ UNCHANGED <<upc, utext, totalProcessed, handlerCaught>>
       ELSE HandlerExit(activeSessions + 1, "skipped")
    /\ UNCHANGED <<upstream, b_text, status, statusCreated, statusDeletes, updates,
                   fetchCalls, fetched>>
    /\ UNCHANGED <<deliveryVars, replyVars, splitVars, downloadVars, shortcodeVars,
                   resolveVars, unitVars>>

\* await sendProcessingMessage(ctx) settles: the processing message exists
\* and the first updateProcessingMessage is called, or the rejection leaves
\* processInstagramUrl, whose try block has not begun.
sendProcessingMessage_settled ==
    /\ hpc = "processing"
    /\ \/ /\ statusCreated' = statusCreated + 1
          /\ status' = [exists |-> TRUE, text |-> "processing"]
          /\ IF extractShortcode(b_text).isNull
             THEN StartUpdate("invalid")
             ELSE StartUpdate("fetching")
       \/ /\ HandlerExit(activeSessions, "threw")
          /\ UNCHANGED <<status, statusCreated>>
    /\ UNCHANGED <<upstream, b_text, statusDeletes, updates, fetchCalls, fetched>>
    /\ UNCHANGED <<deliveryVars, replyVars, splitVars, downloadVars, shortcodeVars,
                   resolveVars, unitVars>>

\* updateProcessingMessage has ended, by an exception if threw: the last
\* update ends processInstagramUrl, a failed one enters its catch block,
\* the one before the fetch is followed by getMediaItems.
AfterUpdate(threw) ==
    IF utext = "failed" THEN HandlerExit(activeSessions, "returned")
    ELSE IF threw THEN StartUpdate("failed")
    ELSE IF utext = "fetching" THEN Goto("fetch")
    ELSE HandlerExit(activeSessions, "returned")

\* await ctx.api.editMessageText settles: the message shows the text, or
\* the catch block sends the text with ctx.reply.  A message that is gone
\* cannot be edited.
updateProcessingMessage_edited ==
    /\ hpc = "update" /\ upc = "edit"
    /\ \/ /\ status.exists
          /\ status' = [status EXCEPT !.text = utext]
          /\ updates' = Append(updates, [text |-> utext, how |-> "edit"])
          /\ AfterUpdate(FALSE)
       \/ /\ upc' = "reply"
          /\ UNCHANGED <<hpc, utext, activeSessions, totalProcessed, handlerCaught,
                         status, updates>>
    /\ UNCHANGED <<upstream, b_text, statusCreated, statusDeletes, fetchCalls, fetched>>
    /\ UNCHANGED <<deliveryVars, replyVars, splitVars, downloadVars, shortcodeVars,
                   resolveVars, unitVars>>

\* await ctx.reply(text) of the catch block settles: a new message carries
\* the text, or the rejection leaves updateProcessingMessage.
updateProcessingMessage_replied ==
    /\ hpc = "update" /\ upc = "reply"
    /\ UNCHANGED overtaken
    /\ \/ /\ textsSent' = textsSent + 1
          /\ updates' = Append(updates, [text |-> utext, how |-> "reply"])
          /\ AfterUpdate(FALSE)
       \/ /\ UNCHANGED textsSent
          /\ updates' = Append(updates, [text |-> utext, how |-> "lost"])
          /\ AfterUpdate(TRUE)
    /\ UNCHANGED <<upstream, b_text, status, statusCreated, statusDeletes, fetchCalls,
                   fetched>>
    /\ UNCHANGED <<deliveryVars, splitVars, downloadVars, shortcodeVars, resolveVars, unitVars>>

\* processInstagramUrl without the test of the list for emptiness.
getMediaItems_settled_noEmptyTest ==
    /\ hpc = "fetch"
    /\ fetchCalls' = fetchCalls + 1
    /\ \E o \in UpstreamOutcomes :
         /\ upstream' = o
         /\ IF fetchPostData(o) = "threw"
            THEN /\ UNCHANGED <<fetched, resolveVars>>
                 /\ StartUpdate("failed")
            ELSE \E mediaData \in BotPayloads :
                    LET r == getMediaItems(fetchPostData(o), mediaData)
                    IN /\ r_payload' = mediaData
                       /\ r_out' = r.items /\ r_threw' = r.threw /\ r_done' = TRUE
                       /\ fetched' = Len(r.items)
                       /\ Goto("deleteStatus")
    /\ UNCHANGED <<b_text, status, statusCreated, statusDeletes, updates>>
    /\ UNCHANGED <<deliveryVars, replyVars, splitVars, downloadVars, shortcodeVars,
                   unitVars>>

\* await getMediaItems(shortcode) settles after its one metadata call: it
\* throws what fetchPostData threw, or returns a list;
\* for the empty list the no-media text is set, else the deletion of the
\* processing message starts.
getMediaItems_settled ==
    /\ hpc = "fetch"
    /\ fetchCalls' = fetchCalls + 1
    /\ \E o \in UpstreamOutcomes :
         /\ upstream' = o
         /\ IF fetchPostData(o) = "threw"
            THEN /\ UNCHANGED <<fetched, resolveVars>>
                 /\ StartUpdate("failed")
            ELSE \E mediaData \in BotPayloads :
                    LET r == getMediaItems(fetchPostData(o), mediaData)
                    IN /\ r_payload' = mediaData
                       /\ r_out' = r.items /\ r_threw' = r.threw /\ r_done' = TRUE
                       /\ fetched' = Len(r.items)
                       /\ IF Len(r.items) = 0 THEN StartUpdate("nomedia")
                          ELSE Goto("deleteStatus")
    /\ UNCHANGED <<b_text, status, statusCreated, statusDeletes, updates>>
    /\ UNCHANGED <<deliveryVars, replyVars, splitVars, downloadVars, shortcodeVars,
                   unitVars>>

\* processInstagramUrl that does not await sendMediaItems.
processingMessage_deleted_noAwait ==
    /\ hpc = "deleteStatus"
    /\ \E ok \in BOOLEAN : status' = [status EXCEPT !.exists = @ /\ ~ok]
    /\ statusDeletes' = statusDeletes + 1
    /\ items' = MediaItems(fetched)
    /\ pc' = "idle"
    /\ dl' = [j \in 1..fetched |-> "none"]
    /\ declared' = [j \in 1..fetched |-> "unknown"]
    /\ HandlerExit(activeSessions, "returned")
    /\ UNCHANGED <<upstream, b_text, statusCreated, updates, fetchCalls, fetched>>
    /\ UNCHANGED <<originalMessageId, useMediaGroups, gi, ii, successCount, ret,
                   bodyThrew, groupVars, itemVars, envVars, finallyVars, tempDir,
                   sends, delivered, created, attempts, groupCalls, fellBack,
                   timerDeleted, sendAttempts>>
    /\ UNCHANGED <<replyVars, splitVars, downloadVars, shortcodeVars, resolveVars, unitVars>>

\* processInstagramUrl that leaves the processing message in place when it
\* calls sendMediaItems.
processingMessage_deleted_skipped ==
    /\ hpc = "deleteStatus"
    /\ UNCHANGED <<status, statusDeletes>>
    /\ items' = MediaItems(fetched)
    /\ pc' = "idle"
    /\ dl' = [j \in 1..fetched |-> "none"]
    /\ declared' = [j \in 1..fetched |-> "unknown"]
    /\ Goto("sending")
    /\ UNCHANGED <<upstream, b_text, statusCreated, updates, fetchCalls, fetched>>
    /\ UNCHANGED <<originalMessageId, useMediaGroups, gi, ii, successCount, ret,
                   bodyThrew, groupVars, itemVars, envVars, finallyVars, tempDir,
                   sends, delivered, created, attempts, groupCalls, fellBack,
                   timerDeleted, sendAttempts>>
    /\ UNCHANGED <<replyVars, splitVars, downloadVars, shortcodeVars, resolveVars, unitVars>>

\* await deleteMessage(ctx, processingMessageId) settles (deleteMessage
\* catches a failed deletion), then sendMediaItems(ctx, mediaItems,
\* originalMessageId) is called and awaited.
processingMessage_deleted ==
    /\ hpc = "deleteStatus"
    /\ \E ok \in BOOLEAN : status' = [status EXCEPT !.exists = @ /\ ~ok]
    /\ statusDeletes' = statusDeletes + 1
    /\ items' = MediaItems(fetched)
    /\ pc' = "idle"
    /\ dl' = [j \in 1..fetched |-> "none"]
    /\ declared' = [j \in 1..fetched |-> "unknown"]
    /\ Goto("sending")
    /\ UNCHANGED <<upstream, b_text, statusCreated, updates, fetchCalls, fetched>>
    /\ UNCHANGED <<originalMessageId, useMediaGroups, gi, ii, successCount, ret,
                   bodyThrew, groupVars, itemVars, envVars, finallyVars, tempDir,
                   sends, delivered, created, attempts, groupCalls, fellBack,
                   timerDeleted, sendAttempts>>
    /\ UNCHANGED <<replyVars, splitVars, downloadVars, shortcodeVars, resolveVars, unitVars>>

\* await sendMediaItems(...) settles: processInstagramUrl returns, or its
\* catch block sets the failure text.
sendMediaItems_settled ==
    /\ hpc = "sending" /\ pc \in {"returned", "threw"}
    /\ IF pc = "threw"
       THEN StartUpdate("failed")
       ELSE HandlerExit(activeSessions, "returned")
    /\ UNCHANGED <<upstream, b_text, status, statusCreated, statusDeletes, updates,
                   fetchCalls, fetched>>
    /\ UNCHANGED <<deliveryVars, replyVars, splitVars, downloadVars, shortcodeVars,
                   resolveVars, unitVars>>

(***************************************************************************)
(* index.ts: startBot, with validateConfig, the constructor of BotService  *)
(* and BotService.start.                                                   *)
(***************************************************************************)
\* validateConfig: throws when config.botToken is empty
validateConfig(token) == IF token = "" THEN "threw" ELSE "returned"

\* The catch block of startBot: the error is logged, then process.exit(1).
Exit(cause) == spc' = "exited" /\ exitCause' = cause

\* What startBot leaves alone.
bootFrame ==
    UNCHANGED <<botToken, items, originalMessageId, mainVars, groupVars, itemVars,
                envVars, finallyVars, dl, tempDir, sends, delivered, created,
                attempts, groupCalls, fellBack, declared, timerDeleted, sendAttempts,
                replyVars, splitVars, downloadVars, frontVars, scratchVars,
                extensionVars, logLevel, lastCmd>>

\* validateConfig() in the try block of startBot
startBot_validateConfig ==
    /\ spc = "validate"
    /\ IF validateConfig(botToken) = "threw"
       THEN Exit("validateConfig")
       ELSE spc' = "construct" /\ UNCHANGED exitCause
    /\ UNCHANGED <<started, useMediaGroups>>
    /\ bootFrame

\* new BotService(): the constructor of DownloaderService throws when the
\* scratch directory cannot be created.
startBot_BotService ==
    /\ spc = "construct"
    /\ \/ spc' = "start" /\ UNCHANGED exitCause
       \/ Exit("BotService")
    /\ UNCHANGED <<started, useMediaGroups>>
    /\ bootFrame

\* bot.start() runs to await this.bot.init(): config.useMediaGroups = true
startBot_start ==
    /\ spc = "start"
    /\ spc' = "init" /\ UNCHANGED exitCause
    /\ useMediaGroups' = TRUE
    /\ UNCHANGED started
    /\ bootFrame

\* await this.bot.init() settles: this.bot.start() begins to poll, or the
\* rejection (the messaging API cannot be reached, the token is refused)
\* reaches the catch block of startBot.
startBot_init ==
    /\ spc = "init"
    /\ \/ spc' = "running" /\ started' = TRUE /\ UNCHANGED exitCause
       \/ Exit("init") /\ UNCHANGED started
    /\ UNCHANGED useMediaGroups
    /\ bootFrame

(***************************************************************************)
(* BotService: start() and the configuration commands.                     *)
(***************************************************************************)
\* process.env.ADMIN_IDS, as in the example of the documentation
ADMIN_IDS == {1234567890, 123456}

\* ctx.from?.id: an administrator, somebody else, nobody.
Senders == ADMIN_IDS \cup {42, NoSender}

\* LogLevel.NONE .. LogLevel.DEBUG
LogLevels == 0..4

\* The command that sets a level.
LevelCommand(level) ==
    <<"loglevel_none", "loglevel_error", "loglevel_warn", "loglevel_info",
      "loglevel_debug">>[level + 1]

\* isAdmin that lets every sender pass.
isAdmin_anyone(userId) == TRUE

\* if (!userId) return false; return ADMIN_IDS.includes(userId)
isAdmin(userId) == userId # NoSender /\ userId \in ADMIN_IDS

\* What no configuration command touches.
requestVars ==
    <<items, originalMessageId, mainVars, groupVars, itemVars, envVars, finallyVars,
      dl, tempDir, sends, delivered, created, attempts, groupCalls, fellBack,
      declared, timerDeleted, sendAttempts, replyVars, splitVars, downloadVars,
      frontVars, scratchVars, extensionVars, startupVars>>

\* The command cmd of sender from is answered with reply.
Handled(cmd, from, reply) == lastCmd' = [cmd |-> cmd, from |-> from, reply |-> reply]

\* ctx.reply('This command is only available to administrators.'); return
Denied(cmd, from) ==
    /\ Handled(cmd, from, "adminsOnly")
    /\ UNCHANGED <<useMediaGroups, logLevel>>

\* start(): config.useMediaGroups = true, then the bot is started.
start ==
    /\ ~started
    /\ started' = TRUE
    /\ useMediaGroups' = TRUE
    /\ UNCHANGED <<logLevel, lastCmd, requestVars>>

\* /mediagroups
mediagroups ==
    /\ started
    /\ \E from \in Senders :
         IF ~isAdmin(from) THEN Denied("mediagroups", from)
         ELSE /\ Handled("mediagroups", from, "info")
              /\ UNCHANGED <<useMediaGroups, logLevel>>
    /\ UNCHANGED <<started, requestVars>>

\* /mediagroups_on
mediagroups_on ==
    /\ started
    /\ \E from \in Senders :
         IF ~isAdmin(from) THEN Denied("mediagroups_on", from)
         ELSE /\ useMediaGroups' = TRUE
              /\ Handled("mediagroups_on", from, "enabled")
              /\ UNCHANGED logLevel
    /\ UNCHANGED <<started, requestVars>>

\* /mediagroups_off
mediagroups_off ==
    /\ started
    /\ \E from \in Senders :
         IF ~isAdmin(from) THEN Denied("mediagroups_off", from)
         ELSE /\ useMediaGroups' = FALSE
              /\ Handled("mediagroups_off", from, "disabled")
              /\ UNCHANGED logLevel
    /\ UNCHANGED <<started, requestVars>>

\* /loglevel
loglevel ==
    /\ started
    /\ \E from \in Senders :
         IF ~isAdmin(from) THEN Denied("loglevel", from)
         ELSE /\ Handled("loglevel", from, "info")
              /\ UNCHANGED <<useMediaGroups, logLevel>>
    /\ UNCHANGED <<started, requestVars>>

\* /loglevel_none ... /loglevel_debug: setLogLevel(ctx, level)
setLogLevel ==
    /\ started
    /\ \E from \in Senders, level \in LogLevels :
         IF ~isAdmin(from) THEN Denied(LevelCommand(level), from)
         ELSE /\ logLevel' = level
              /\ Handled(LevelCommand(level), from, "levelSet")
              /\ UNCHANGED useMediaGroups
    /\ UNCHANGED <<started, requestVars>>

Next ==
    \/ sendMediaItems_empty
    \/ sendMediaItems_single
    \/ sendMediaItems_grouped
    \/ sendMediaItems_individual
    \/ sendMediaItems_singleReturned
    \/ sendMediaItems_groupReturned
    \/ sendMediaItems_groupDelayed
    \/ sendMediaItems_itemReturned
    \/ sendMediaItems_itemDelayed
    \/ sendMediaItem_downloaded
    \/ sendMediaItem_fileSent
    \/ sendMediaItem_urlSent
    \/ sendMediaItem_replied
    \/ \E j \in DOMAIN dl : download_settled(j)
    \/ sendMediaGroup_albumSent
    \/ sendMediaGroup_itemReturned
    \/ sendMediaGroup_delayed
    \/ deleteMessage_settled

Spec == Init /\ [][Next]_vars

\* A request of a few items, the two timers and the clock.
InitTimers ==
    /\ \E K \in 0..MaxTimerItems : items = MediaItems(K)
    /\ useMediaGroups \in BOOLEAN
    /\ originalMessageId = 1
    /\ InitDelivery
    /\ SplitIdle
    /\ DownloadIdle
    /\ FrontIdle
    /\ UnitIdle

\* The requests of InitTimers have one group at most: the delay between two
\* groups is never reached.
NextTimers ==
    \/ sendMediaItems_empty
    \/ sendMediaItems_single
    \/ sendMediaItems_grouped
    \/ sendMediaItems_individual
    \/ sendMediaItems_singleReturned
    \/ sendMediaItems_groupReturned
    \/ sendMediaItems_itemReturned
    \/ sendMediaItems_itemDelayed
    \/ sendMediaItem_downloaded
    \/ sendMediaItem_fileSent
    \/ sendMediaItem_urlSent
    \/ sendMediaItem_replied
    \/ \E j \in DOMAIN dl : download_settled(j)
    \/ sendMediaGroup_albumSent
    \/ sendMediaGroup_itemReturned
    \/ sendMediaGroup_delayed
    \/ deleteMessage_settled
    \/ hourlyCleanup
    \/ periodicCleanup
    \/ Tick

SpecTimers == InitTimers /\ [][NextTimers]_vars

\* splitIntoGroups on every list of up to MaxSplitItems items.
NoRequest ==
    /\ items = <<>> /\ useMediaGroups = TRUE /\ originalMessageId = NoId
    /\ InitDelivery

InitSplit ==
    /\ NoRequest
    /\ DownloadIdle
    /\ FrontIdle
    /\ UnitIdle
    /\ \E K \in 0..MaxSplitItems, first \in MediaType : sp_items = ItemList(K, first)
    /\ sp_groups = <<>> /\ sp_done = FALSE

NextSplit == splitIntoGroups_called

SpecSplit == InitSplit /\ [][NextSplit]_vars

\* downloadFile against every transport behaviour.
InitDownload ==
    /\ NoRequest
    /\ SplitIdle
    /\ FrontIdle
    /\ UnitIdle
    /\ d_resp \in DownloadResponses
    /\ d_out = NoOutcome /\ d_done = FALSE

NextDownload == downloadFile_called

SpecDownload == InitDownload /\ [][NextDownload]_vars

(***************************************************************************)
(* The link classifier on its own.                                         *)
(***************************************************************************)
\* isInstagramUrl(text) and extractShortcode(text) of InstagramHandler and
\* extractShortcode(text) of InstagramService are called with the text.
extractShortcode_called ==
    /\ ~sc_done
    /\ sc_is' = isInstagramUrl(sc_text)
    /\ sc_out' = extractShortcode(sc_text)
    /\ sc_svc' = InstagramService_extractShortcode(sc_text)
    /\ sc_done' = TRUE
    /\ UNCHANGED <<sc_text, deliveryVars, replyVars, splitVars, downloadVars, resolveVars,
                   botVars, unitVars>>

InitShortcode ==
    /\ NoRequest
    /\ SplitIdle
    /\ DownloadIdle
    /\ sc_text \in Texts
    /\ sc_out = noShortcode /\ sc_is = FALSE /\ sc_done = FALSE
    /\ sc_svc = noShortcode
    /\ ResolveIdle
    /\ BotIdle
    /\ UnitIdle

NextShortcode == extractShortcode_called

SpecShortcode == InitShortcode /\ [][NextShortcode]_vars

(***************************************************************************)
(* SpecResolve: extractMediaItems applied to a payload.                    *)
(***************************************************************************)
extractMediaItems_called ==
    /\ ~r_done
    /\ r_out' = extractMediaItems(r_payload).items
    /\ r_threw' = extractMediaItems(r_payload).threw
    /\ r_done' = TRUE
    /\ UNCHANGED <<r_payload, deliveryVars, replyVars, splitVars, downloadVars,
                   shortcodeVars, botVars, unitVars>>

InitResolve ==
    /\ NoRequest
    /\ SplitIdle
    /\ DownloadIdle
    /\ ShortcodeIdle
    /\ r_payload \in Payloads
    /\ r_out = <<>> /\ r_done = FALSE /\ r_threw = FALSE
    /\ BotIdle
    /\ UnitIdle

NextResolve == extractMediaItems_called

SpecResolve == InitResolve /\ [][NextResolve]_vars

(***************************************************************************)
(* SpecBot: one text message from its arrival to the end of its handler,   *)
(* with the delivery the handler starts.                                   *)
(***************************************************************************)
InitBot ==
    /\ items = <<>> /\ useMediaGroups \in BOOLEAN /\ originalMessageId = 1
    /\ DeliveryAt("uncalled")
    /\ SplitIdle
    /\ DownloadIdle
    /\ ShortcodeIdle
    /\ ResolveIdle
    /\ UnitIdle
    /\ b_text \in BotTexts
    /\ hpc = "waiting" /\ upc = "none" /\ utext = "none"
    /\ status = NoStatus /\ statusCreated = 0 /\ statusDeletes = 0 /\ updates = <<>>
    /\ fetchCalls = 0 /\ fetched = -1 /\ upstream = "none"
    /\ activeSessions = 0 /\ totalProcessed = 0 /\ handlerCaught = FALSE

\* The resolver's lists have one group at most, and the empty list is never
\* handed to sendMediaItems.
NextBot ==
    \/ handler_received
    \/ sendProcessingMessage_settled
    \/ updateProcessingMessage_edited
    \/ updateProcessingMessage_replied
    \/ getMediaItems_settled
    \/ processingMessage_deleted
    \/ sendMediaItems_settled
    \/ sendMediaItems_single
    \/ sendMediaItems_grouped
    \/ sendMediaItems_individual
    \/ sendMediaItems_singleReturned
    \/ sendMediaItems_groupReturned
    \/ sendMediaItems_itemReturned
    \/ sendMediaItems_itemDelayed
    \/ sendMediaItem_downloaded
    \/ sendMediaItem_fileSent
    \/ sendMediaItem_urlSent
    \/ sendMediaItem_replied
    \/ \E j \in DOMAIN dl : download_settled(j)
    \/ sendMediaGroup_albumSent
    \/ sendMediaGroup_itemReturned
    \/ sendMediaGroup_delayed
    \/ deleteMessage_settled

SpecBot == InitBot /\ [][NextBot]_vars

(***************************************************************************)
(* SpecScratch: up to two cleanupFile / cleanupTempFiles calls on a        *)
(* scratch directory.                                                      *)
(***************************************************************************)
Call(op, p, unlinkOk, olderFilesOnly, failing, res) ==
    [op |-> op, path |-> p, unlinkOk |-> unlinkOk, olderFilesOnly |-> olderFilesOnly,
     failing |-> failing, before |-> sd_dir, after |-> res.dir, threw |-> res.threw]

cleanupFile_called ==
    /\ Len(sd_log) < 2
    /\ \E p \in 1..MaxEntries, unlinkOk \in BOOLEAN :
         LET res == cleanupFile_call(sd_dir, p, unlinkOk)
         IN /\ sd_dir' = res.dir
            /\ sd_log' = Append(sd_log, Call("cleanupFile", p, unlinkOk, FALSE, {}, res))
    /\ UNCHANGED <<deliveryVars, replyVars, splitVars, downloadVars, frontVars,
                   extensionVars, adminVars, startupVars>>

cleanupTempFiles_called ==
    /\ Len(sd_log) < 2
    /\ \E olderFilesOnly \in BOOLEAN,
          failing \in { {} } \cup { {p} : p \in DOMAIN sd_dir } :
         LET res == cleanupTempFiles_call(sd_dir, olderFilesOnly, failing)
         IN /\ sd_dir' = res.dir
            /\ sd_log' = Append(sd_log,
                            Call("cleanupTempFiles", 0, TRUE, olderFilesOnly, failing, res))
    /\ UNCHANGED <<deliveryVars, replyVars, splitVars, downloadVars, frontVars,
                   extensionVars, adminVars, startupVars>>

InitScratch ==
    /\ NoRequest
    /\ SplitIdle
    /\ DownloadIdle
    /\ FrontIdle
    /\ ExtensionIdle
    /\ AdminIdle
    /\ StartupIdle
    /\ sd_dir \in ScratchDirs
    /\ sd_log = <<>>

NextScratch ==
    \/ cleanupFile_called
    \/ cleanupTempFiles_called

SpecScratch == InitScratch /\ [][NextScratch]_vars

(***************************************************************************)
(* SpecExtension: getFileExtension applied to a URL and a content type.    *)
(***************************************************************************)
getFileExtension_called ==
    /\ ~x_done
    /\ x_out' = getFileExtension(x_url, x_type)
    /\ x_done' = TRUE
    /\ UNCHANGED <<x_url, x_type, deliveryVars, replyVars, splitVars, downloadVars,
                   frontVars, scratchVars, adminVars, startupVars>>

InitExtension ==
    /\ NoRequest
    /\ SplitIdle
    /\ DownloadIdle
    /\ FrontIdle
    /\ ScratchIdle
    /\ AdminIdle
    /\ StartupIdle
    /\ x_url \in Urls /\ x_type \in ContentTypes
    /\ x_out = <<>> /\ x_done = FALSE

NextExtension == getFileExtension_called

SpecExtension == InitExtension /\ [][NextExtension]_vars

(***************************************************************************)
(* SpecAdmin: start() and the configuration commands, from any sender.     *)
(***************************************************************************)
InitAdmin ==
    /\ items = <<>> /\ originalMessageId = NoId /\ useMediaGroups \in BOOLEAN
    /\ InitDelivery
    /\ SplitIdle
    /\ DownloadIdle
    /\ FrontIdle
    /\ ScratchIdle
    /\ ExtensionIdle
    /\ started = FALSE /\ logLevel \in LogLevels /\ lastCmd = NoCmd
    /\ StartupIdle

NextAdmin ==
    \/ start
    \/ mediagroups
    \/ mediagroups_on
    \/ mediagroups_off
    \/ loglevel
    \/ setLogLevel

SpecAdmin == InitAdmin /\ [][NextAdmin]_vars

(***************************************************************************)
(* SpecStartup: startBot from its first statement, and, once the bot       *)
(* polls, one text message with the delivery its handler starts.           *)
(***************************************************************************)
InitStartup ==
    /\ items = <<>> /\ useMediaGroups \in BOOLEAN /\ originalMessageId = 1
    /\ DeliveryAt("uncalled")
    /\ SplitIdle
    /\ DownloadIdle
    /\ ShortcodeIdle
    /\ ResolveIdle
    /\ ScratchIdle
    /\ ExtensionIdle
    /\ started = FALSE /\ logLevel = 0 /\ lastCmd = NoCmd
    /\ botToken \in {"", Token} /\ spc = "validate" /\ exitCause = "none"
    /\ b_text \in BotTexts
    /\ hpc = "waiting" /\ upc = "none" /\ utext = "none"
    /\ status = NoStatus /\ statusCreated = 0 /\ statusDeletes = 0 /\ updates = <<>>
    /\ fetchCalls = 0 /\ fetched = -1 /\ upstream = "none"
    /\ activeSessions = 0 /\ totalProcessed = 0 /\ handlerCaught = FALSE

\* start() has set config.useMediaGroups, so the lists of several items go
\* out in groups.
NextStartup ==
    \/ startBot_validateConfig
    \/ startBot_BotService
    \/ startBot_start
    \/ startBot_init
    \/ handler_received
    \/ sendProcessingMessage_settled
    \/ updateProcessingMessage_edited
    \/ updateProcessingMessage_replied
    \/ getMediaItems_settled
    \/ processingMessage_deleted
    \/ sendMediaItems_settled
    \/ sendMediaItems_single
    \/ sendMediaItems_grouped
    \/ sendMediaItems_singleReturned
    \/ sendMediaItems_groupReturned
    \/ sendMediaItem_downloaded
    \/ sendMediaItem_fileSent
    \/ sendMediaItem_urlSent
    \/ sendMediaItem_replied
    \/ \E j \in DOMAIN dl : download_settled(j)
    \/ sendMediaGroup_albumSent
    \/ sendMediaGroup_itemReturned
    \/ sendMediaGroup_delayed
    \/ deleteMessage_settled

SpecStartup == InitStartup /\ [][NextStartup]_vars

(***************************************************************************)
(* SpecToggle: a short request, with /mediagroups_on and /mediagroups_off  *)
(* handled at any moment of its delivery.                                  *)
(***************************************************************************)
InitToggle ==
    /\ \E K \in 0..MaxShort : items = MediaItems(K)
    /\ useMediaGroups \in BOOLEAN
    /\ originalMessageId = 1
    /\ InitDelivery
    /\ SplitIdle
    /\ DownloadIdle
    /\ FrontIdle
    /\ UnitIdle

NextToggle ==
    \/ mediagroups_on
    \/ mediagroups_off
    \/ sendMediaItems_empty
    \/ sendMediaItems_single
    \/ sendMediaItems_grouped
    \/ sendMediaItems_individual
    \/ sendMediaItems_singleReturned
    \/ sendMediaItems_groupReturned
    \/ sendMediaItems_itemReturned
    \/ sendMediaItems_itemDelayed
    \/ sendMediaItem_downloaded
    \/ sendMediaItem_fileSent
    \/ sendMediaItem_urlSent
    \/ sendMediaItem_replied
    \/ \E j \in DOMAIN dl : download_settled(j)
    \/ sendMediaGroup_albumSent
    \/ sendMediaGroup_itemReturned
    \/ sendMediaGroup_delayed
    \/ deleteMessage_settled

SpecToggle == InitToggle /\ [][NextToggle]_vars

(***************************************************************************)
(* The claims.                                                             *)
(***************************************************************************)
\* C1: when sendMediaItems returns, every file a download created for the
\* request has been deleted from the scratch directory.
C1_FilesDeletedAtReturn ==
    [][(pc # "returned" /\ pc' = "returned") =>
          (created' \cap DOMAIN tempDir' = {})]_vars

\* C2: the number sendMediaItems returns is the number of items delivered
\* to the conversation.
C2_CountIsDelivered == pc = "returned" => ret = Len(delivered)

\* C3: a sweep timer deletes only files older than the TTL, and never a file
\* between the completion of its download and the end of the send that
\* consumes it.
C3_SweepOnlyExpired ==
    \A d \in timerDeleted : d.age > debugFileTTL /\ ~d.inUse

\* C4: with at least one item and an origin message id, the deletion of the
\* origin message is attempted exactly once, after the last send attempt and
\* with no send in flight, whether the try block returned or threw; a failed
\* deletion raises nothing and leaves the returned count as it was.
C4_OriginDeletedOnce ==
    (Len(items) > 0 /\ originalMessageId # NoId) =>
        /\ pc \notin {"deleting", "returned", "threw"} => originDeletes = 0
        /\ pc \in {"deleting", "returned", "threw"} =>
              originDeletes = 1 /\ sendsAtDelete = sendAttempts /\ sends = {}
        /\ pc = "threw" => bodyThrew
        /\ pc = "returned" => ~bodyThrew /\ ret = successCount

C4_Witness ==
    /\ originalMessageId # NoId /\ pc = "threw"
    /\ originDeletes = 1 /\ deleteFailed /\ sendAttempts = 3

\* C5: sendMediaItem sends the file when the download succeeded; when the
\* download or the file send failed it makes exactly one direct-URL send of
\* the item's kind, and none otherwise; it returns true exactly when one of
\* the two sends succeeded, and false or an exception only when the
\* direct-URL send failed.
C5_UrlFallback ==
    ipc = "ret" =>
        /\ call.fileSends = (IF call.dlOk THEN 1 ELSE 0)
        /\ call.urlSends = (IF call.dlOk /\ call.fileOk THEN 0 ELSE 1)
        /\ call.urlSends = 1 => call.urlType = items[cur].type
        /\ (ires = "true") <=> (call.fileOk \/ call.urlOk)
        /\ ires \in {"true", "false", "throw"}
        /\ ~(call.fileOk /\ call.urlOk)

C5_Witness ==
    /\ ipc = "ret" /\ ires = "true"
    /\ call.dlOk /\ ~call.fileOk /\ call.urlSends = 1 /\ call.urlOk

\* C6: the individual attempts of a grouped request are the items of the
\* groups that fell back, group by group and in the groups' order; at the
\* end every item of every such group has been attempted and sendMediaGroup
\* has been called for every group.
C6_FallbackCoversGroup ==
    (useMediaGroups /\ Len(items) > 1) =>
        LET expected == Concat([g \in 1..Len(groups) |->
                                  IF g \in fellBack THEN GroupSeq(g) ELSE <<>>])
        IN /\ Len(attempts) <= Len(expected)
           /\ attempts = SubSeq(expected, 1, Len(attempts))
           /\ pc \in {"returned", "threw"} =>
                 /\ attempts = expected
                 /\ groupCalls = [g \in 1..Len(groups) |-> g]

C6_Witness ==
    /\ pc = "returned" /\ Len(groups) = 2 /\ fellBack = {1}
    /\ Len(attempts) = MAX_MEDIA_GROUP_SIZE /\ Len(delivered) = Len(items) - 1

\* C7: for a list of K > 1 items splitIntoGroups yields ceil(K/10) groups,
\* each of 1 to 10 items, whose concatenation is the list.
C7_GroupingLaw ==
    (sp_done /\ Len(sp_items) > 1) =>
        /\ Len(sp_groups) =
              (Len(sp_items) + MAX_MEDIA_GROUP_SIZE - 1) \div MAX_MEDIA_GROUP_SIZE
        /\ \A g \in DOMAIN sp_groups :
              Len(sp_groups[g]) >= 1 /\ Len(sp_groups[g]) <= MAX_MEDIA_GROUP_SIZE
        /\ Concat(sp_groups) = sp_items

C7_Witness ==
    /\ sp_done /\ Len(sp_items) = 2 * MAX_MEDIA_GROUP_SIZE
    /\ Len(sp_groups) = 2

\* C8: at most one send is in flight; sendMediaGroup is called for the
\* groups in increasing index; no download of a later group has started
\* while a group is worked on, and the downloads of a group are awaited with
\* no send in flight and no individual attempt going on.
C8_Sequential ==
    /\ Cardinality(sends) <= 1
    /\ groupCalls = [k \in 1..Len(groupCalls) |-> k]
    /\ \A j \in DOMAIN dl : dl[j] # "none" => GroupOf(j) <= gi
    /\ (pc = "group" /\ gpc = "downloads") => (sends = {} /\ ipc = "idle")
    /\ sends # {} => pc \in {"single", "group", "indiv"}

C8_Witness ==
    /\ pc = "group" /\ gi = 2 /\ gpc = "album" /\ 1 \in fellBack
    /\ sends = {AlbumSend(2)}

\* C9: when the probe declares a length above maxFileSize * 1024 * 1024,
\* downloadFile fails with no GET issued and no file created; when the
\* declared length is at most that, or the header is absent or no number,
\* the GET is issued.
C9_SizeCeiling ==
    (d_done /\ d_resp.probe = "ok") =>
        LET contentLength == contentLengthOf(d_resp.header) IN
        /\ (~contentLength.nan /\ contentLength.val > maxFileSize * 1024 * 1024) =>
              ~d_out.ok /\ ~d_out.getIssued /\ ~d_out.file
        /\ (contentLength.nan \/ contentLength.val <= maxFileSize * 1024 * 1024) =>
              d_out.getIssued
        /\ d_resp.header \in {NoHeader, <<>>, <<"a", "b", "c">>, AtCeiling} =>
              d_out.getIssued
        /\ d_resp.header = OverCeiling => ~d_out.getIssued /\ ~d_out.file

C9_Witness ==
    /\ d_done /\ d_resp.probe = "ok" /\ d_resp.header = OverCeiling
    /\ ~d_out.ok /\ ~d_out.getIssued

\* C10: an item whose declared length exceeds the ceiling adds nothing to
\* the count sendMediaItems returns, and every other item of the request is
\* attempted (by its group or individually).
C10_TooLargeCountsZero ==
    pc = "returned" =>
        /\ ret <= Len(items) - Cardinality(tooLargeItems)
        /\ \A j \in (1..Len(items)) \ tooLargeItems :
              \/ j \in Range(attempts)
              \/ useMediaGroups /\ Len(items) > 1 /\ GroupOf(j) \in Range(groupCalls)

\* C11: downloadFile always settles: whatever the probe, the GET, the body
\* stream and the write stream do, its promise rejects or resolves, and it
\* resolves only when the write stream has finished.
C11_AlwaysSettles ==
    d_done => /\ d_out.settled
              /\ d_out.ok => (d_resp.get = "ok" /\ d_resp.write = "finish")

\* C12: after a failed downloadFile call no file made by the call is left in
\* the scratch directory.
C12_NoFileAfterFailure ==
    (d_done /\ ~d_out.ok) => ~d_out.file

\* C15: for a text with instagram.com/<type>/<segment>, type one of p, reel
\* and tv (in any case) and a segment of at least one character,
\* extractShortcode returns the segment, which ends before the next '/' or
\* '?'; for every other text it returns null; isInstagramUrl holds of the
\* same texts.
C15_Shortcode ==
    sc_done =>
        /\ \A pre \in Prefixes, host \in Hosts, type \in TypeSegments,
              seg \in Segments, suf \in Suffixes :
              sc_text = LinkText(pre, host, type, seg, suf) =>
                  IF host \in SupportedHosts /\ type \in SupportedTypes /\ seg # <<>>
                  THEN ~sc_out.isNull /\ sc_out.value = seg
                  ELSE sc_out.isNull
        /\ sc_text \in {<<>>, <<"h", "e", "l", "l", "o">>} => sc_out.isNull
        /\ sc_is <=> ~sc_out.isNull

C15_Witness ==
    /\ sc_done /\ ~sc_out.isNull
    /\ sc_out.value = <<"C", "x", "-", "_", "9">>
    /\ \E pre \in Prefixes \ {<<>>}, host \in SupportedHosts :
          sc_text = LinkText(pre, host, <<"T", "V">>, sc_out.value, <<"?", "i", "g", "=", "1">>)

\* C16: for a carousel of N children (every edge with its node), M of them with neither a usable video
\* source nor a display URL, the result has N - M items, and the item at
\* position p comes from the p-th child that was not skipped.
C16_CarouselCount ==
    (/\ r_done /\ r_payload.edges.kind = "array"
     /\ \A e \in DOMAIN r_payload.edges.list : r_payload.edges.list[e] # NoNode) =>
        LET children == r_payload.edges.list
            Skipped == { k \in DOMAIN children :
                           /\ ~(children[k].is_video /\ children[k].video_url # NoUrl)
                           /\ children[k].display_url = NoUrl }
            Kept == DOMAIN children \ Skipped
        IN /\ Len(r_out) = Len(children) - Cardinality(Skipped)
           /\ \A k \in Kept :
                 r_out[Cardinality({ q \in Kept : q <= k })].url
                     \in {children[k].video_url, children[k].display_url} \ {NoUrl}

C16_Witness ==
    /\ r_done /\ r_payload.edges.kind = "array"
    /\ Len(r_payload.edges.list) = 3
    /\ r_payload.edges.list[2] = Node(TRUE, NoUrl, NoUrl)
    /\ r_out = << MediaItem(VIDEO, 11), MediaItem(IMAGE, 23) >>

\* C17: a payload with a children collection yields only items of its
\* children (none when the collection is empty), whatever else it carries;
\* without one, a payload tagged GraphVideo or flagged is_video yields at
\* most one video from its video fields; any other yields at most one image
\* from its image fields.
C17_Precedence ==
    r_done =>
        IF r_payload.edges.kind # "absent"
        THEN /\ \A p \in DOMAIN r_out : r_out[p].url >= 10
             /\ Len(r_out) <= Len(r_payload.edges.list)
        ELSE IF r_payload.typename = "GraphVideo" \/ r_payload.is_video
             THEN r_out \in { <<>>, <<MediaItem(VIDEO, 1)>>, <<MediaItem(VIDEO, 2)>>,
                               <<MediaItem(VIDEO, NoUrl)>> }
             ELSE r_out \in { <<>>, <<MediaItem(IMAGE, 3)>>, <<MediaItem(IMAGE, 4)>>,
                               <<MediaItem(IMAGE, NoUrl)>> }

C17_Witness ==
    /\ r_done /\ r_payload.edges = [kind |-> "array", list |-> <<>>]
    /\ r_payload.is_video /\ r_payload.typename = "GraphVideo"
    /\ r_payload.video_url # NoUrl /\ r_payload.display_url # NoUrl
    /\ r_out = <<>>

\* C13: when getMediaItems has returned the empty list, sendMediaItems is
\* never called: no download, no send and no deletion of the origin message
\* happens; the update that follows carries the no-media text, and the
\* processing message shows it once its edit has succeeded.
C13_EmptyListNotDelivered ==
    fetched = 0 =>
        /\ pc = "uncalled" /\ items = <<>> /\ dl = <<>>
        /\ hpc \notin {"deleteStatus", "sending"}
        /\ sendAttempts = 0 /\ sends = {} /\ attempts = <<>> /\ groupCalls = <<>>
        /\ created = {} /\ originDeletes = 0
        /\ utext \in {"nomedia", "failed"}
        /\ Len(updates) >= 2 => updates[2].text = "nomedia"
        /\ (Len(updates) >= 2 /\ updates[2].how = "edit") =>
               (hpc = "done" /\ status = [exists |-> TRUE, text |-> "nomedia"])

C13_Witness ==
    /\ fetched = 0 /\ hpc = "done" /\ fetchCalls = 1
    /\ status = [exists |-> TRUE, text |-> "nomedia"]

\* C14: for a text without a supported link the handler makes no resolver
\* call, starts no download and no delivery, creates no processing message
\* and sends no text.
C14_OtherTextIgnored ==
    ~isInstagramUrl(b_text) =>
        /\ hpc \in {"waiting", "done"} /\ upc = "none"
        /\ fetchCalls = 0 /\ fetched = -1
        /\ pc = "uncalled" /\ dl = <<>> /\ created = {}
        /\ sendAttempts = 0 /\ sends = {}
        /\ statusCreated = 0 /\ textsSent = 0 /\ updates = <<>>

C14_Witness ==
    /\ ~isInstagramUrl(b_text) /\ hpc = "done"
    /\ \E h \in SupportedHosts :
          b_text = LinkText(<<>>, h, <<"r", "e", "e", "l", "s">>, <<"A">>, <<>>)

\* C18: at most one processing message is created per request, every status
\* text that is delivered is delivered by editing it, and no other text
\* message reaches the conversation.
C18_SingleStatusMessage ==
    /\ statusCreated <= 1
    /\ hpc \in {"update", "fetch", "deleteStatus", "sending"} => statusCreated = 1
    /\ \A k \in DOMAIN updates : updates[k].how # "reply"
    /\ textsSent = 0
    /\ \A m \in sends : m.via # "text"

\* C19: no exception leaves the message:text handler; what
\* processInstagramUrl throws is caught and logged by the handler, and the
\* handler ends with activeSessions back at its value.
C19_NothingEscapes ==
    /\ hpc # "escaped"
    /\ hpc = "done" =>
          /\ activeSessions = 0
          /\ (isInstagramUrl(b_text) /\ statusCreated = 0) => handlerCaught
          /\ handlerCaught => totalProcessed = 0

C19_Witness ==
    /\ hpc = "done" /\ handlerCaught /\ statusCreated = 0

C21_UpstreamFailure ==
    upstream \in {"error", "nodata"} =>
        /\ fetchCalls = 1 /\ fetched = -1
        /\ hpc \in {"update", "done"} /\ utext = "failed"
        /\ pc = "uncalled" /\ dl = <<>> /\ created = {}
        /\ sendAttempts = 0 /\ sends = {} /\ delivered = <<>>
        /\ Len(updates) <= 2
        /\ Len(updates) = 2 =>
              /\ updates[2].text = "failed" /\ hpc = "done"
              /\ updates[2].how = "edit" => status = [exists |-> TRUE, text |-> "failed"]

C21_Witness ==
    /\ upstream = "nodata" /\ hpc = "done" /\ fetchCalls = 1
    /\ status = [exists |-> TRUE, text |-> "failed"]

\* C22: cleanupFile never throws; on a regular file that unlinkSync can
\* remove it removes the file; on a path that is absent, be it that an
\* earlier call removed it or that it never was there, it changes nothing;
\* in every case the other entries of the directory are as before.
C22_CleanupFileIdempotent ==
    \A k \in DOMAIN sd_log :
        LET c == sd_log[k] IN
        c.op = "cleanupFile" =>
            /\ ~c.threw
            /\ \A q \in (DOMAIN c.before \cup DOMAIN c.after) \ {c.path} :
                  q \in DOMAIN c.before /\ q \in DOMAIN c.after /\ c.after[q] = c.before[q]
            /\ (c.path \in DOMAIN c.before /\ c.before[c.path].isFile /\ c.unlinkOk)
                  => c.path \notin DOMAIN c.after
            /\ c.path \notin DOMAIN c.before => c.after = c.before
            /\ (k > 1 /\ sd_log[k - 1].op = "cleanupFile" /\ sd_log[k - 1].path = c.path
                  /\ c.path \notin DOMAIN sd_log[k - 1].after)
                  => c.after = c.before

C22_Witness ==
    /\ Len(sd_log) = 2
    /\ sd_log[1].op = "cleanupFile" /\ sd_log[2].op = "cleanupFile"
    /\ sd_log[1].path = sd_log[2].path
    /\ sd_log[1].path \in DOMAIN sd_log[1].before
    /\ sd_log[1].path \notin DOMAIN sd_log[1].after
    /\ sd_log[2].after = sd_log[2].before /\ sd_log[2].after # EmptyDir

C29_KnownExtension ==
    x_done => x_out \in KnownExtensions

\* C30: without a children collection, a video payload gives the empty list
\* exactly when it has neither video_url nor an entry of video_versions, and
\* else one Video item whose URL is video_url when present and the first
\* entry of video_versions otherwise; an image payload gives the same with
\* display_url and the image candidates, as one Image item.
C30_SingleItem ==
    (r_done /\ r_payload.edges.kind = "absent") =>
        LET video == r_payload.typename = "GraphVideo" \/ r_payload.is_video
            first == IF video THEN r_payload.video_url ELSE r_payload.display_url
            rest == IF video THEN r_payload.video_versions ELSE r_payload.candidates
        IN /\ Len(r_out) <= 1
           /\ r_out = <<>> <=> (first = NoUrl /\ rest = <<>>)
           /\ \A k \in DOMAIN r_out :
                 /\ r_out[k].type = IF video THEN VIDEO ELSE IMAGE
                 /\ r_out[k].url = IF first # NoUrl THEN first ELSE rest[1]

C30_Witness ==
    /\ r_done /\ r_payload.edges.kind = "absent"
    /\ r_payload.is_video /\ r_payload.typename = "GraphImage"
    /\ r_payload.video_url = NoUrl /\ r_payload.video_versions = <<>>
    /\ r_payload.display_url # NoUrl
    /\ r_out = <<>>

C24_InputOrder ==
    \A a, b \in DOMAIN delivered : a < b => delivered[a] < delivered[b]

C24_Witness ==
    /\ pc = "returned" /\ useMediaGroups /\ Len(items) = 3
    /\ fellBack = {1} /\ delivered = <<1, 3>>

\* C25: a delivery that has returned without any failure has delivered
\* every item once, in K = 1 by one send and with count 1, in K > 1 with
\* grouping by one album send per group and no sendMediaItem call, without
\* grouping by one send per item; the count returned is K.
C25_FullSuccess ==
    (pc = "returned" /\ faults = 0 /\ Len(items) > 0) =>
        /\ ret = Len(items)
        /\ delivered = [j \in 1..Len(items) |-> j]
        /\ fellBack = {}
        /\ created = { Path(j, IF Len(items) > 1 /\ useMediaGroups THEN "g" ELSE "s") :
                         j \in 1..Len(items) }
        /\ IF Len(items) > 1 /\ useMediaGroups
           THEN /\ attempts = <<>>
                /\ Len(groupCalls) =
                      (Len(items) + MAX_MEDIA_GROUP_SIZE - 1) \div MAX_MEDIA_GROUP_SIZE
                /\ sendAttempts = Len(groupCalls)
           ELSE /\ groupCalls = <<>>
                /\ attempts = [j \in 1..Len(items) |-> j]
                /\ sendAttempts = Len(items)

C25_Witness ==
    /\ pc = "returned" /\ faults = 0 /\ Len(items) > MAX_MEDIA_GROUP_SIZE
    /\ ret = Len(items) /\ groupCalls = <<1, 2>> /\ sendAttempts = 2

\* C26: sendMediaItems takes the grouped or the individual way by the value
\* config.useMediaGroups has when it is called, and stays on it to its end
\* whatever the flag becomes: no delivery has both a sendMediaGroup call and
\* a step of the individual loop.
C26_FlagReadOnce ==
    [][ /\ (pc = "idle" /\ pc' = "group") => useMediaGroups
        /\ (pc = "idle" /\ pc' = "indiv") => ~useMediaGroups
        /\ pc \in {"group", "groupDelay"} =>
              pc' \in {"group", "groupDelay", "deleting", "returned", "threw"}
        /\ pc \in {"indiv", "indivDelay"} =>
              pc' \in {"indiv", "indivDelay", "deleting", "returned", "threw"}
        /\ ii' > 0 => groupCalls' = <<>> ]_vars

C26_Witness ==
    /\ pc = "indiv" /\ ii = 3 /\ useMediaGroups
    /\ lastCmd.cmd = "mediagroups_on" /\ isAdmin(lastCmd.from)
    /\ groupCalls = <<>> /\ Len(delivered) = 2

\* C27: once start() has run, a step changes config.useMediaGroups or
\* config.logLevel only if it handles mediagroups_on, mediagroups_off or a
\* loglevel_* command of a sender in ADMIN_IDS; a command of any other
\* sender, or of none, changes neither and is answered with the
\* administrators-only text.
C27_AdminOnly ==
    [][ /\ (started /\ useMediaGroups' # useMediaGroups) =>
              /\ lastCmd'.cmd = IF useMediaGroups' THEN "mediagroups_on" ELSE "mediagroups_off"
              /\ lastCmd'.from \in ADMIN_IDS
        /\ (started /\ logLevel' # logLevel) =>
              /\ lastCmd'.cmd = LevelCommand(logLevel')
              /\ lastCmd'.from \in ADMIN_IDS
        /\ (lastCmd' # lastCmd /\ lastCmd'.from \notin ADMIN_IDS) =>
              /\ lastCmd'.reply = "adminsOnly"
              /\ UNCHANGED <<useMediaGroups, logLevel>> ]_vars

C27_Witness ==
    /\ started /\ lastCmd = [cmd |-> "mediagroups_off", from |-> 42, reply |-> "adminsOnly"]
    /\ useMediaGroups /\ logLevel = 4

(***************************************************************************)
(* C39: InstagramService.extractShortcode and                              *)
(* InstagramHandler.extractShortcode return the same result for every      *)
(* text: both null, or the same shortcode.                                 *)
(***************************************************************************)
C39_SameShortcode ==
    sc_done => sc_svc = sc_out

(***************************************************************************)
(* C32: a text is accepted by isInstagramUrl exactly when                  *)
(* InstagramHandler.extractShortcode finds a shortcode in it, which is     *)
(* then not empty; so processInstagramUrl, called for accepted texts only, *)
(* never sets the invalid-link text.                                       *)
(***************************************************************************)
C32_AcceptedHasShortcode ==
    /\ isInstagramUrl(b_text) <=> ~extractShortcode(b_text).isNull
    /\ ~extractShortcode(b_text).isNull => extractShortcode(b_text).value # <<>>
    /\ hpc # "waiting" /\ statusCreated > 0 =>
          /\ isInstagramUrl(b_text)
          /\ utext # "invalid"
          /\ \A k \in DOMAIN updates : updates[k].text # "invalid"

\* processInstagramUrl has passed its shortcode test for a TV link and
\* the fetching text shows.
C32_Witness ==
    /\ hpc = "fetch"
    /\ \E h \in SupportedHosts : b_text = LinkText(<<>>, h, <<"t", "v">>, <<"A">>, <<>>)
    /\ status.text = "fetching"
    /\ ~extractShortcode(b_text).isNull

(***************************************************************************)
(* C33: every item extractMediaItems returns has a url that is defined and *)
(* not empty, whatever the shape of the payload (carousel child,           *)
(* video_url, first entry of video_versions, display_url, first image      *)
(* candidate).                                                             *)
(***************************************************************************)
C33_ItemsHaveUrl ==
    r_done => \A k \in DOMAIN r_out : r_out[k].url # NoUrl

(***************************************************************************)
(* C34: extractMediaItems never throws; when an edge of the carousel has   *)
(* no node the list is empty, getMediaItems returns it, and the request    *)
(* goes on with the update to the no-media text and without a delivery.    *)
(***************************************************************************)
C34_MalformedIsNoMedia ==
    r_done =>
        /\ ~r_threw
        /\ (\E e \in DOMAIN r_payload.edges.list : r_payload.edges.list[e] = NoNode) =>
              /\ r_out = <<>> /\ fetched = 0
              /\ pc = "uncalled" /\ delivered = <<>> /\ originDeletes = 0
              /\ \/ utext = "nomedia"
                 \/ \E k \in DOMAIN updates : updates[k].text = "nomedia"
              /\ hpc = "done" => ~handlerCaught

\* A carousel whose first edge has an image node and whose second edge has
\* no node was resolved, and the handler has ended with the no-media text.
C34_Witness ==
    /\ hpc = "done" /\ r_done
    /\ r_payload.edges.list = <<Node(FALSE, NoUrl, 21), NoNode>>
    /\ r_out = <<>>
    /\ status.text = "nomedia"

(***************************************************************************)
(* C36: activeSessions is the number of message:text handlers in flight,   *)
(* never negative and back to its former value when the handler has ended, *)
(* on whatever path; totalProcessed never decreases, and it grows only at  *)
(* the end of a handler whose text held a supported link.                  *)
(***************************************************************************)
C36_SessionCounters ==
    /\ activeSessions = (IF hpc \in {"waiting", "done"} THEN 0 ELSE 1)
    /\ totalProcessed \in {0, 1}
    /\ totalProcessed = 1 => hpc = "done" /\ isInstagramUrl(b_text)
    /\ ~isInstagramUrl(b_text) => totalProcessed = 0

\* The handler has ended through its catch block.
C36_Witness ==
    /\ hpc = "done" /\ handlerCaught
    /\ activeSessions = 0 /\ totalProcessed = 0

(***************************************************************************)
(* C37: as long as sendMediaItems has not been called (no shortcode, a     *)
(* failed metadata call, an empty list) neither the processing message nor *)
(* the origin message is deleted, and the processing message shows the     *)
(* failure text once the edit to it has succeeded; when sendMediaItems is  *)
(* called the deletion of the processing message has been attempted, with  *)
(* no download and no send before it; the deletion of the origin message   *)
(* is attempted after the last send.                                       *)
(***************************************************************************)
C37_DeletionsOnDeliveryPath ==
    /\ statusDeletes <= 1 /\ originDeletes <= 1
    /\ pc = "uncalled" =>
          /\ statusDeletes = 0 /\ originDeletes = 0
          /\ statusCreated = 1 => status.exists
          /\ (/\ hpc = "done" /\ updates # <<>>
              /\ updates[Len(updates)].how = "edit") =>
                 status.text \in {"invalid", "nomedia", "failed"}
    /\ pc # "uncalled" => statusDeletes = 1
    /\ statusDeletes = 0 =>
          created = {} /\ sendAttempts = 0 /\ \A j \in DOMAIN dl : dl[j] = "none"
    /\ originDeletes = 1 =>
          statusDeletes = 1 /\ sends = {} /\ sendsAtDelete = sendAttempts

\* A delivery has ended: both deletions were attempted, the origin message's
\* after the sends.
C37_Witness ==
    /\ hpc = "done" /\ pc = "returned" /\ statusDeletes = 1 /\ originDeletes = 1
    /\ sendAttempts > 0 /\ ~status.exists

(***************************************************************************)
(* C38: an album that is sent has one entry per item of its group; entry k *)
(* is the file that the download of the k-th item of the group wrote, of   *)
(* type video when that item is a Video and photo otherwise, in whatever   *)
(* order the downloads of the group ended; and every download of the group *)
(* has succeeded.                                                          *)
(***************************************************************************)
C38_AlbumMatchesItems ==
    \A m \in sends :
        m.via = "album" =>
            LET ids == GroupSeq(m.of)
            IN /\ Len(m.type) = Len(ids)
               /\ \A k \in DOMAIN ids :
                     /\ m.type[k].media = Path(ids[k], "g")
                     /\ Path(ids[k], "g") \in created
                     /\ m.type[k].type =
                           (IF items[ids[k]].type = VIDEO THEN "video" ELSE "photo")
               /\ \A j \in GroupIds(m.of) : dl[j] = "ok"

\* An album of a video, an image and a video is being sent, the download
\* of a later item having ended before that of an earlier one.
C38_Witness ==
    /\ overtaken /\ gpc = "album"
    /\ \E m \in sends :
          /\ m.via = "album" /\ Len(m.type) = 3
          /\ m.type[1].type = "video" /\ m.type[2].type = "photo"
          /\ m.type[2].media = Path(2, "g")

(***************************************************************************)
(* C35: within a request no item is delivered twice: not in an album and   *)
(* individually, and not as a file and by its URL (a send that failed      *)
(* having delivered nothing); and what is delivered is an item of the      *)
(* request.                                                                *)
(***************************************************************************)
C35_DeliveredAtMostOnce ==
    /\ \A a, b \in DOMAIN delivered : delivered[a] = delivered[b] => a = b
    /\ \A a \in DOMAIN delivered : delivered[a] \in DOMAIN items

\* A group fell back to individual sends after its album send had failed,
\* an item of it went out by its URL after its file send had failed, and
\* the request has returned.
C35_Witness ==
    /\ pc = "returned" /\ fellBack # {} /\ Len(delivered) >= 2
    /\ faults = 2
    /\ \A a, b \in DOMAIN delivered : delivered[a] = delivered[b] => a = b

(***************************************************************************)
(* C31: the program ends the process only at startup and only for a        *)
(* missing credential: validateConfig fails exactly when the bot token is  *)
(* empty, and no other failure, of the startup or of the handling of a     *)
(* message, leads to process.exit.                                         *)
(***************************************************************************)
C31_ExitOnlyForMissingToken ==
    /\ spc = "exited" => botToken = "" /\ exitCause = "validateConfig"
    /\ (botToken = "" /\ spc # "validate") => spc = "exited"
    /\ hpc # "waiting" => spc = "running"

====
